---- MODULE Spec2Model ----
(***************************************************************************)
(* Reasoning layer of report-generator: AnthropicProvider (retry, backoff, *)
(* token accounting), the prompt builders and parsers, and                 *)
(* ReportSynthesizer.synthesize.                                           *)
(*                                                                         *)
(* Text that the code trims, lower-cases, prefixes or counts is a sequence *)
(* of one-character strings; names and status labels, which the code only  *)
(* compares and embeds, are plain strings.  A Python dict is a function    *)
(* whose DOMAIN is the set of keys present.  A Python value that may be of *)
(* several types is a record carrying a tag t.                             *)
(***************************************************************************)
EXTENDS Integers, Sequences, FiniteSets, TLC

VARIABLES
    input_tokens,      \* AnthropicProvider._input_tokens
    output_tokens,     \* AnthropicProvider._output_tokens
    max_retries,       \* AnthropicProvider.max_retries
    synth_max_tokens,  \* ReportSynthesizer.max_tokens
    gen,               \* the frame of the generate() call in progress
    context,           \* the mapping the caller passed to synthesize()
    features,          \* the local variable features of synthesize()
    synthesis,         \* the local variable synthesis of synthesize()
    spc,               \* position of the synthesize() call
    result,            \* what synthesize() returned
    hist,              \* observations of the call in progress (not program state)
    usage,             \* what the last get_token_usage() returned
    acct,              \* observations of the token accounting (not program state)
    parse,             \* the last call of a response parser: its argument and outcome
    config,            \* the ReasoningConfig in use
    env,               \* the process environment: variables set, packages installed
    got,               \* the last call of get_provider(): its outcome
    report,            \* the frame of the KPRReportGenerator.generate() call in progress
    view,              \* the last call of a renderer's transform_context(): its outcome
    prompt_call,       \* the last call of executive_summary.build_prompt(): its outcome
    ctor,              \* the last construction of a ReasoningConfig: arguments, environment, object
    singleton,         \* the module variable _global_config and the calls made on it
    threads            \* two threads inside generate() on the one provider

vars == <<input_tokens, output_tokens, max_retries, synth_max_tokens, gen,
          context, features, synthesis, spc, result, hist, usage, acct, parse,
          config, env, got, report, view, prompt_call,
          ctor, singleton, threads>>

app_vars == <<config, env, got, report, view>>
aux_vars == <<prompt_call, ctor, singleton, threads>>

provider_vars == <<input_tokens, output_tokens, max_retries>>
synth_vars == <<context, features, synthesis, spc, result>>

-----------------------------------------------------------------------------
(* Bounds of the model *)

MaxItems == 1        \* deliverables in one context
MaxTokens == 1       \* generate is not started once a counter exceeds this
MaxRetriesBound == 2 \* providers are constructed with max_retries up to this, and with the default
MaxActions == 2      \* elements of the actions array of a response
MaxRows == 2         \* deliverables in a context whose prompt is built on its own
MaxInstances == 3    \* ReasoningConfig objects constructed in one process

-----------------------------------------------------------------------------
(* Python values *)

PyNone == [t |-> "None"]
PyStr(s) == [t |-> "str", s |-> s]
PyDict(d) == [t |-> "dict", d |-> d]
PyList(l) == [t |-> "list", l |-> l]

\* {}
EmptyDict == [k \in {} |-> PyNone]

\* dict.get(key, default)
Get(d, k, default) == IF k \in DOMAIN d THEN d[k] ELSE default

\* {**d, k: v}
With(d, k, v) == [x \in DOMAIN d \cup {k} |-> IF x = k THEN v ELSE d[x]]

\* a str the code only stores and passes on
PyName(n) == [t |-> "str", name |-> n]

\* an exception object; its message is fmt, in which a number n, a value arg
\* and the message of another exception may be embedded
Exc(type, fmt) == [type |-> type, fmt |-> fmt, n |-> 0, arg |-> PyNone, inner |-> "", innerType |-> ""]

\* str(e): the message without the exception's type
StrOf(e) == [t |-> "msg", fmt |-> e.fmt, n |-> e.n, arg |-> e.arg, inner |-> e.inner]

NoExc == Exc("", "")

\* the outcome of a call: the value returned or the exception raised
Returns(v) == [ok |-> TRUE, value |-> v]
Raises(e) == [ok |-> FALSE, exc |-> e]

-----------------------------------------------------------------------------
(* str methods *)

Whitespace == {" ", "\t", "\n", "\r"}

UpperCase == <<"A", "B", "C", "D", "E", "F", "G", "H", "I", "J", "K", "L", "M", "N", "O", "P", "Q", "R", "S", "T", "U", "V", "W", "X", "Y", "Z">>
LowerCase == <<"a", "b", "c", "d", "e", "f", "g", "h", "i", "j", "k", "l", "m", "n", "o", "p", "q", "r", "s", "t", "u", "v", "w", "x", "y", "z">>

RECURSIVE lstrip(_)
lstrip(s) == IF s # <<>> /\ Head(s) \in Whitespace THEN lstrip(Tail(s)) ELSE s

RECURSIVE rstrip(_)
rstrip(s) == IF s # <<>> /\ s[Len(s)] \in Whitespace THEN rstrip(SubSeq(s, 1, Len(s) - 1)) ELSE s

strip(s) == rstrip(lstrip(s))

ToLower == [c \in {UpperCase[i] : i \in 1..26} |-> LowerCase[CHOOSE i \in 1..26 : UpperCase[i] = c]]

lower_char(c) == IF c \in DOMAIN ToLower THEN ToLower[c] ELSE c

lower(s) == [i \in 1..Len(s) |-> lower_char(s[i])]

startswith(s, p) == Len(p) <= Len(s) /\ SubSeq(s, 1, Len(p)) = p

\* s.count(c) for a single character c
count(s, c) == Cardinality({i \in 1..Len(s) : s[i] = c})

-----------------------------------------------------------------------------
(* JSON *)

PyInt(i) == [t |-> "int", i |-> i]
PyBool(b) == [t |-> "bool", b |-> b]

\* the keys of the JSON objects of the model, in the order they are written
KeyOrder == <<"themes", "critical_risks", "anomalies", "actions", "title", "description", "owner", "success_criterion", "confidence", "related_deliverables">>

\* the characters of a key
NameChars(n) ==
    CASE n = "themes" -> <<"t", "h", "e", "m", "e", "s">>
      [] n = "critical_risks" -> <<"c", "r", "i", "t", "i", "c", "a", "l", "_", "r", "i", "s", "k", "s">>
      [] n = "anomalies" -> <<"a", "n", "o", "m", "a", "l", "i", "e", "s">>
      [] n = "actions" -> <<"a", "c", "t", "i", "o", "n", "s">>
      [] n = "title" -> <<"t", "i", "t", "l", "e">>
      [] n = "description" -> <<"d", "e", "s", "c", "r", "i", "p", "t", "i", "o", "n">>
      [] n = "owner" -> <<"o", "w", "n", "e", "r">>
      [] n = "success_criterion" -> <<"s", "u", "c", "c", "e", "s", "s", "_", "c", "r", "i", "t", "e", "r", "i", "o", "n">>
      [] n = "confidence" -> <<"c", "o", "n", "f", "i", "d", "e", "n", "c", "e">>
      [] n = "related_deliverables" -> <<"r", "e", "l", "a", "t", "e", "d", "_", "d", "e", "l", "i", "v", "e", "r", "a", "b", "l", "e", "s">>

\* sep.join(parts)
RECURSIVE JoinSeqs(_, _)
JoinSeqs(parts, sep) ==
    IF parts = <<>> THEN <<>>
    ELSE IF Len(parts) = 1 THEN parts[1]
    ELSE parts[1] \o sep \o JoinSeqs(Tail(parts), sep)

Digits == <<"0", "1", "2", "3", "4", "5", "6", "7", "8", "9">>

\* json.dumps(v) for the values of the model: single-digit integers, text
\* without characters that need escaping
RECURSIVE dumps(_)
dumps(v) ==
    CASE v.t = "None" -> <<"n", "u", "l", "l">>
      [] v.t = "bool" -> IF v.b THEN <<"t", "r", "u", "e">> ELSE <<"f", "a", "l", "s", "e">>
      [] v.t = "int" -> <<Digits[v.i + 1]>>
      [] v.t = "str" -> <<"\"">> \o v.s \o <<"\"">>
      [] v.t = "list" ->
            <<"[">> \o JoinSeqs([i \in 1..Len(v.l) |-> dumps(v.l[i])], <<",", " ">>) \o <<"]">>
      [] v.t = "dict" ->
            LET keys == SelectSeq(KeyOrder, LAMBDA k : k \in DOMAIN v.d) IN
            <<"{">> \o JoinSeqs([i \in 1..Len(keys) |->
                                    <<"\"">> \o NameChars(keys[i]) \o <<"\"", ":", " ">> \o dumps(v.d[keys[i]])],
                                <<",", " ">>) \o <<"}">>

\* a key's name as a JSON string
Text(name) == PyStr(NameChars(name))

RiskKeys == {"themes", "critical_risks", "anomalies"}

\* what a response holds under one of the three keys of a risk analysis
RiskFieldValues == {PyList(<<>>), PyList(<<PyStr(<<"x">>)>>), PyNone}

\* objects holding any of the three keys
RiskDocs == UNION {{PyDict(f) : f \in [D -> RiskFieldValues]} : D \in SUBSET RiskKeys}

\* JSON values that are not objects; two of them contain the three key names
NonObjectDocs == {
    PyList(<<>>),
    PyList(<<Text("themes"), Text("critical_risks"), Text("anomalies")>>),
    PyList(<<Text("actions")>>),
    PyStr(<<"x">>),
    PyStr(NameChars("themes") \o <<" ">> \o NameChars("critical_risks") \o <<" ">> \o NameChars("anomalies")),
    Text("actions"),
    PyInt(5),
    PyBool(TRUE),
    PyNone }

RequiredFields == <<"title", "description", "owner", "success_criterion", "confidence">>

\* ["high", "medium", "low"]
ConfidenceLevels ==
    {PyStr(<<"h", "i", "g", "h">>), PyStr(<<"m", "e", "d", "i", "u", "m">>), PyStr(<<"l", "o", "w">>)}

SuperHigh == PyStr(<<"s", "u", "p", "e", "r", "-", "h", "i", "g", "h">>)

\* an action holding the given fields, with the given confidence
Action(fields, confidence) ==
    PyDict([k \in fields |->
              CASE k = "confidence" -> confidence
                [] k = "related_deliverables" -> PyList(<<PyStr(<<"A">>)>>)
                [] OTHER -> PyStr(<<"T">>)])

AllRequired == {RequiredFields[i] : i \in 1..Len(RequiredFields)}

\* elements of an actions array: complete actions of every confidence, one
\* of an unknown confidence, actions lacking fields, and values that are
\* not objects
ActionValues ==
    {Action(AllRequired, c) : c \in ConfidenceLevels \cup {SuperHigh}}
    \cup {Action(AllRequired \cup {"related_deliverables"}, PyStr(<<"h", "i", "g", "h">>))}
    \cup {Action(AllRequired \ {f}, PyStr(<<"h", "i", "g", "h">>)) : f \in {"title", "owner", "confidence"}}
    \cup {Action(AllRequired \ {"description", "owner"}, PyStr(<<"l", "o", "w">>)),
          Action(AllRequired \ {"owner"}, SuperHigh),
          PyStr(<<"x">>),
          PyInt(5)}

ActionLists == UNION {[1..k -> ActionValues] : k \in 0..MaxActions}

\* objects with and without the actions key, holding a list or not
ActionDocs ==
    {PyDict([k \in {"actions"} |-> PyList(l)]) : l \in ActionLists}
    \cup {PyDict([k \in {"actions"} |-> v]) : v \in {PyNone, PyStr(<<"x">>), PyDict(EmptyDict)}}

\* the JSON values whose texts occur in the model
JsonDocs == RiskDocs \cup NonObjectDocs \cup ActionDocs

\* the text of each of them
JsonTable == {<<dumps(v), v>> : v \in JsonDocs}

-----------------------------------------------------------------------------
(* AnthropicProvider *)

MAX_RETRIES == 3
RETRY_DELAY == 1
DEFAULT_MODEL == "claude-sonnet-4-5-20250929"

RECURSIVE Pow2(_)
Pow2(n) == IF n = 0 THEN 1 ELSE 2 * Pow2(n - 1)

\* a prompt passed to generate(): literal text, or a filled template
LiteralPrompt(text) == [template |-> "literal", text |-> text]

\* not prompt or not prompt.strip(); the templates start with fixed text
PromptIsBlank(p) == p.template = "literal" /\ strip(p.text) = <<>>

IdleGen == [pc |-> "idle", caller |-> "none", prompt |-> LiteralPrompt(<<>>),
            max_tokens |-> 0, temperature |-> 0, attempt |-> 0,
            last_error |-> NoExc, text |-> <<>>, exc |-> NoExc]

\* entry into generate(prompt, system_prompt, max_tokens, temperature);
\* temperature is in tenths
CallFrame(caller, prompt, max_tokens, temperature) ==
    [IdleGen EXCEPT !.pc = "validate", !.caller = caller, !.prompt = prompt,
                    !.max_tokens = max_tokens, !.temperature = temperature]

\* ValidationError with the test max_tokens < 0 in place of max_tokens <= 0
ValidationError_ZeroAllowed(g) ==
    IF PromptIsBlank(g.prompt) THEN Exc("ValueError", "Prompt cannot be empty")
    ELSE IF g.max_tokens < 0 THEN Exc("ValueError", "max_tokens must be positive")
    ELSE IF ~(0 <= g.temperature /\ g.temperature <= 10)
         THEN Exc("ValueError", "temperature must be between 0.0 and 1.0")
    ELSE NoExc

\* the checks at the head of generate(), in order; NoExc when all pass
ValidationError(g) ==
    IF PromptIsBlank(g.prompt) THEN Exc("ValueError", "Prompt cannot be empty")
    ELSE IF g.max_tokens <= 0 THEN Exc("ValueError", "max_tokens must be positive")
    ELSE IF ~(0 <= g.temperature /\ g.temperature <= 10)
         THEN Exc("ValueError", "temperature must be between 0.0 and 1.0")
    ELSE NoExc

\* raise LLMProviderError(f"Failed ... after {max_retries} attempts: {last_error}") from last_error
ExhaustedError(n, last) ==
    [type |-> "LLMProviderError",
     fmt |-> "Failed to generate response after {n} attempts: {inner}",
     n |-> n,
     arg |-> PyNone,
     inner |-> IF last = NoExc THEN "None" ELSE last.fmt,
     innerType |-> last.type]

\* LoopContinues for range(self.max_retries + 1)
LoopContinues_OneMore(attempt, n) == attempt <= n

\* for attempt in range(self.max_retries): is there an iteration numbered attempt
LoopContinues(attempt, n) == attempt < n

\* SleepsAfter for a sleep in every except branch
SleepsAfter_EveryFailure(attempt, n) == attempt < n

\* if attempt < self.max_retries - 1: sleep before the next attempt
SleepsAfter(attempt, n) == attempt < n - 1

\* delay = self.RETRY_DELAY * (2**attempt)
BackoffDelay(attempt) == RETRY_DELAY * Pow2(attempt)

\* observations of one call, reset when a top-level call starts
\*   creates, sleeps, outcomes: the client.messages.create calls, the
\*     time.sleep delays and the backend outcomes of the current generate()
\*   tokens0: the counters when the current generate() was entered
\*   calls: the provider.generate calls of the current top-level call
\*   errors, texts: what each feature's step raised, what generate() returned to it
\*   featuresArg, context0: the arguments of the current synthesize()
NoHist == [creates |-> 0, sleeps |-> <<>>, outcomes |-> <<>>, calls |-> <<>>,
           tokens0 |-> <<0, 0>>, featuresArg |-> PyNone, context0 |-> EmptyDict,
           errors |-> <<>>, texts |-> <<>>]

\* observations across the calls on one provider
\*   last, via: the operation called last, and on which object
\*   fresh: reset_token_usage() was called and no generate() since
\*   received: the usage of every response the backend has returned in the
\*     generate() calls completed since the counters were last zero
\*   returned: the usage of the responses whose text those calls returned
\*   all_ok: every one of those calls returned text
\*   clean: every response in those calls had text to extract
\*   reset_used: both counters were above zero when reset_token_usage() was last called
NoAcct == [last |-> "none", via |-> "none", fresh |-> FALSE, reset_used |-> FALSE,
           received |-> <<0, 0>>, returned |-> <<0, 0>>, all_ok |-> TRUE, clean |-> TRUE]

\* the usage reported by the responses among outcomes
RECURSIVE SumUsage(_)
SumUsage(outcomes) ==
    IF outcomes = <<>> THEN <<0, 0>>
    ELSE LET o == Head(outcomes)
             rest == SumUsage(Tail(outcomes))
         IN  IF o.kind = "response"
             THEN <<o.input_tokens + rest[1], o.output_tokens + rest[2]>>
             ELSE rest

\* the first three checks of generate(); when they pass, the retry loop is
\* entered, and with max_retries <= 0 its body never runs
GenerateValidate ==
    /\ gen.pc = "validate"
    /\ LET e == ValidationError(gen) IN
       IF e # NoExc
       THEN gen' = [gen EXCEPT !.pc = "raised", !.exc = e]
       ELSE IF LoopContinues(0, max_retries)
            THEN gen' = [gen EXCEPT !.pc = "attempt", !.attempt = 0, !.last_error = NoExc]
            ELSE gen' = [gen EXCEPT !.pc = "raised", !.exc = ExhaustedError(max_retries, NoExc)]
    /\ UNCHANGED <<aux_vars, provider_vars, usage, acct, parse, app_vars, synth_max_tokens, synth_vars, hist>>

\* what one iteration of the loop body raises for a backend outcome, NoExc if
\* it reaches the return statement
AttemptError(o) ==
    IF o.kind = "raise" THEN Exc("Exception", o.err)
    ELSE IF ~o.has_text THEN Exc("IndexError", "list index out of range")
    ELSE NoExc

\* AddUsage for self._input_tokens = response.usage.input_tokens
AddUsage_Overwrite(counter, o, reported) == IF o.kind = "response" THEN reported ELSE counter

\* self._input_tokens += response.usage.input_tokens, reached when create() returned
AddUsage(counter, o, reported) == IF o.kind = "response" THEN counter + reported ELSE counter

\* one iteration of the retry loop: client.messages.create, the counter
\* updates, the return, or the except branch with its backoff sleep
GenerateAttempt(o) ==
    /\ gen.pc = "attempt"
    /\ LET e == AttemptError(o) IN
       /\ input_tokens' = AddUsage(input_tokens, o, IF o.kind = "response" THEN o.input_tokens ELSE 0)
       /\ output_tokens' = AddUsage(output_tokens, o, IF o.kind = "response" THEN o.output_tokens ELSE 0)
       /\ hist' = [hist EXCEPT !.creates = @ + 1,
                               !.outcomes = Append(@, o),
                               !.sleeps = IF e # NoExc /\ SleepsAfter(gen.attempt, max_retries)
                                          THEN Append(@, BackoffDelay(gen.attempt)) ELSE @]
       /\ gen' = IF e = NoExc
                 THEN [gen EXCEPT !.pc = "returned", !.text = o.text]
                 ELSE IF LoopContinues(gen.attempt + 1, max_retries)
                      THEN [gen EXCEPT !.attempt = @ + 1, !.last_error = e]
                      ELSE [gen EXCEPT !.pc = "raised", !.last_error = e,
                                       !.exc = ExhaustedError(max_retries, e)]
    /\ UNCHANGED <<aux_vars, max_retries, usage, acct, parse, app_vars, synth_max_tokens, synth_vars>>

\* two threads that call generate() on one provider
ThreadIds == {1, 2}

\* no thread has called generate(); at is a thread's position in generate,
\* response the usage its create() call reported, reg the value it read from
\* the counter it is updating, tokens0 the counters when the threads started
NoThreads == [pc |-> "idle", tokens0 |-> <<0, 0>>,
              at |-> [t \in ThreadIds |-> "idle"],
              response |-> [t \in ThreadIds |-> <<0, 0>>],
              reg |-> [t \in ThreadIds |-> 0]]

\* both threads call generate() on the provider
ThreadsStart ==
    /\ threads.pc \in {"idle", "joined"}
    /\ input_tokens <= MaxTokens /\ output_tokens <= MaxTokens
    /\ threads' = [NoThreads EXCEPT !.pc = "running", !.tokens0 = <<input_tokens, output_tokens>>,
                                    !.at = [t \in ThreadIds |-> "create"]]
    /\ UNCHANGED <<prompt_call, ctor, singleton>>
    /\ UNCHANGED <<provider_vars, usage, acct, parse, app_vars, synth_max_tokens, gen, synth_vars, hist>>

\* client.messages.create returns a response to thread t
ThreadCreate(t, i, o) ==
    /\ threads.at[t] = "create"
    /\ threads' = [threads EXCEPT !.at[t] = "load_input", !.response[t] = <<i, o>>]
    /\ UNCHANGED <<prompt_call, ctor, singleton>>
    /\ UNCHANGED <<provider_vars, usage, acct, parse, app_vars, synth_max_tokens, gen, synth_vars, hist>>

\* self._input_tokens += ...: the read of the attribute
ThreadLoadInput(t) ==
    /\ threads.at[t] = "load_input"
    /\ threads' = [threads EXCEPT !.at[t] = "store_input", !.reg[t] = input_tokens]
    /\ UNCHANGED <<prompt_call, ctor, singleton>>
    /\ UNCHANGED <<provider_vars, usage, acct, parse, app_vars, synth_max_tokens, gen, synth_vars, hist>>

\* self._input_tokens += ...: the addition and the assignment to the attribute
ThreadStoreInput(t) ==
    /\ threads.at[t] = "store_input"
    /\ input_tokens' = threads.reg[t] + threads.response[t][1]
    /\ threads' = [threads EXCEPT !.at[t] = "load_output"]
    /\ UNCHANGED <<prompt_call, ctor, singleton>>
    /\ UNCHANGED <<output_tokens, max_retries, usage, acct, parse, app_vars, synth_max_tokens, gen, synth_vars, hist>>

\* self._output_tokens += ...: the read of the attribute
ThreadLoadOutput(t) ==
    /\ threads.at[t] = "load_output"
    /\ threads' = [threads EXCEPT !.at[t] = "store_output", !.reg[t] = output_tokens]
    /\ UNCHANGED <<prompt_call, ctor, singleton>>
    /\ UNCHANGED <<provider_vars, usage, acct, parse, app_vars, synth_max_tokens, gen, synth_vars, hist>>

\* self._output_tokens += ...: the addition and the assignment to the attribute
ThreadStoreOutput(t) ==
    /\ threads.at[t] = "store_output"
    /\ output_tokens' = threads.reg[t] + threads.response[t][2]
    /\ threads' = [threads EXCEPT !.at[t] = "return"]
    /\ UNCHANGED <<prompt_call, ctor, singleton>>
    /\ UNCHANGED <<input_tokens, max_retries, usage, acct, parse, app_vars, synth_max_tokens, gen, synth_vars, hist>>

\* return response.content[0].text in thread t
ThreadReturn(t) ==
    /\ threads.at[t] = "return"
    /\ threads' = [threads EXCEPT !.at[t] = "returned"]
    /\ UNCHANGED <<prompt_call, ctor, singleton>>
    /\ UNCHANGED <<provider_vars, usage, acct, parse, app_vars, synth_max_tokens, gen, synth_vars, hist>>

\* both calls have returned their texts
ThreadsJoin ==
    /\ threads.pc = "running"
    /\ \A t \in ThreadIds : threads.at[t] = "returned"
    /\ threads' = [threads EXCEPT !.pc = "joined"]
    /\ UNCHANGED <<prompt_call, ctor, singleton>>
    /\ UNCHANGED <<provider_vars, usage, acct, parse, app_vars, synth_max_tokens, gen, synth_vars, hist>>

\* a caller other than the synthesizer calls provider.generate
DirectGenerate(prompt, max_tokens, temperature) ==
    /\ spc = "idle" /\ gen.pc = "idle"
    /\ input_tokens <= MaxTokens /\ output_tokens <= MaxTokens
    /\ gen' = CallFrame("direct", prompt, max_tokens, temperature)
    /\ hist' = [NoHist EXCEPT !.tokens0 = <<input_tokens, output_tokens>>,
                              !.calls = <<"direct">>]
    /\ acct' = [acct EXCEPT !.last = "generate", !.via = "provider", !.fresh = FALSE]
    /\ UNCHANGED <<aux_vars, provider_vars, usage, parse, app_vars, synth_max_tokens, synth_vars>>

\* that caller has received the text or the exception
DirectReturn ==
    /\ gen.caller = "direct" /\ gen.pc \in {"returned", "raised"}
    /\ gen' = IdleGen
    /\ hist' = NoHist
    /\ acct' = LET all == SumUsage(hist.outcomes)
                   last == IF gen.pc = "returned"
                           THEN SumUsage(<<hist.outcomes[Len(hist.outcomes)]>>) ELSE <<0, 0>>
               IN  [acct EXCEPT
                      !.received = <<@[1] + all[1], @[2] + all[2]>>,
                      !.returned = <<@[1] + last[1], @[2] + last[2]>>,
                      !.all_ok = @ /\ gen.pc = "returned",
                      !.clean = @ /\ \A i \in 1..Len(hist.outcomes) :
                                        hist.outcomes[i].kind = "response" => hist.outcomes[i].has_text]
    /\ UNCHANGED <<aux_vars, provider_vars, usage, parse, app_vars, synth_max_tokens, synth_vars>>

\* the dict get_token_usage() builds
get_token_usage == [input_tokens |-> input_tokens, output_tokens |-> output_tokens]

\* GetTokenUsage that zeroes the counters it has read
GetTokenUsage_Resetting(via) ==
    /\ spc = "idle" /\ gen.pc = "idle"
    /\ usage' = get_token_usage
    /\ input_tokens' = 0 /\ output_tokens' = 0
    /\ acct' = [acct EXCEPT !.last = "get", !.via = via]
    /\ UNCHANGED <<aux_vars, max_retries, parse, app_vars, synth_max_tokens, gen, synth_vars, hist>>

\* a call of get_token_usage() between calls of generate()
GetTokenUsage(via) ==
    /\ spc = "idle" /\ gen.pc = "idle"
    /\ usage' = get_token_usage
    /\ acct' = [acct EXCEPT !.last = "get", !.via = via]
    /\ UNCHANGED <<aux_vars, provider_vars, parse, app_vars, synth_max_tokens, gen, synth_vars, hist>>

\* ResetTokenUsage without the second assignment
ResetTokenUsage_InputOnly(via) ==
    /\ spc = "idle" /\ gen.pc = "idle"
    /\ input_tokens' = 0
    /\ acct' = [NoAcct EXCEPT !.last = "reset", !.via = via, !.fresh = TRUE,
                              !.reset_used = (input_tokens > 0 /\ output_tokens > 0)]
    /\ UNCHANGED <<aux_vars, output_tokens, max_retries, usage, parse, app_vars, synth_max_tokens, gen, synth_vars, hist>>

\* a call of reset_token_usage() between calls of generate()
ResetTokenUsage(via) ==
    /\ spc = "idle" /\ gen.pc = "idle"
    /\ input_tokens' = 0 /\ output_tokens' = 0
    /\ acct' = [NoAcct EXCEPT !.last = "reset", !.via = via, !.fresh = TRUE,
                              !.reset_used = (input_tokens > 0 /\ output_tokens > 0)]
    /\ UNCHANGED <<aux_vars, max_retries, usage, parse, app_vars, synth_max_tokens, gen, synth_vars, hist>>

-----------------------------------------------------------------------------
(* ReasoningConfig *)

\* no configuration constructed, no environment looked at
NoConfig == [enabled |-> FALSE, provider |-> "none", max_tokens |-> 0, temperature |-> 0]
NoEnv == [vars |-> EmptyDict, packages |-> {}]

\* get_provider() has not been called
NoCall == [called |-> FALSE, out |-> Returns(PyNone), constructed |-> <<>>]

\* not self.api_key for api_key = None or os.getenv("ANTHROPIC_API_KEY")
NoApiKey(e) == Get(e.vars, "ANTHROPIC_API_KEY", PyStr(<<>>)).s = <<>>

\* AnthropicProvider(): the key, then the import of the anthropic package
NewAnthropicProvider(e) ==
    IF NoApiKey(e)
    THEN Raises(Exc("ValueError", "Anthropic API key is required. Set ANTHROPIC_API_KEY environment variable or pass api_key parameter."))
    ELSE IF "anthropic" \notin e.packages
    THEN Raises(Exc("ImportError", "anthropic package is required for AnthropicProvider. Install it with: pip install anthropic"))
    ELSE Returns([class |-> "AnthropicProvider", model |-> DEFAULT_MODEL, max_retries |-> MAX_RETRIES,
                  input_tokens |-> 0, output_tokens |-> 0])

\* OpenAIProvider()
NewOpenAIProvider ==
    Raises(Exc("NotImplementedError", "OpenAI provider not yet implemented. Use AnthropicProvider for now."))

\* IsEnabledFor for a get_provider() without the first check
IsEnabledFor_Ignored(c) == TRUE

\* self.is_enabled() in get_provider()
IsEnabledFor(c) == c.enabled

\* ReasoningConfig.get_provider: the outcome, and the backend classes whose
\* constructor was entered
get_provider(c, e) ==
    IF ~IsEnabledFor(c)
    THEN [out |-> Raises(Exc("ValueError", "Reasoning layer is not enabled")), constructed |-> <<>>]
    ELSE IF c.provider = "anthropic"
    THEN [out |-> NewAnthropicProvider(e), constructed |-> <<"AnthropicProvider">>]
    ELSE IF c.provider = "openai"
    THEN [out |-> NewOpenAIProvider, constructed |-> <<"OpenAIProvider">>]
    ELSE [out |-> Raises([Exc("ValueError", "Unsupported LLM provider: {arg}. Supported providers: anthropic, openai")
                            EXCEPT !.arg = PyName(c.provider)]),
          constructed |-> <<>>]

\* a caller constructs a ReasoningConfig in some environment and calls get_provider()
GetProviderCall(c, e) ==
    /\ report.pc = "idle" /\ ~got.called
    /\ config' = c /\ env' = e
    /\ got' = [called |-> TRUE, out |-> get_provider(c, e).out, constructed |-> get_provider(c, e).constructed]
    /\ UNCHANGED <<aux_vars, provider_vars, usage, acct, parse, report, view, synth_max_tokens, gen, synth_vars, hist>>

\* the caller has taken the provider or the exception
GetProviderReturn ==
    /\ got.called
    /\ config' = NoConfig /\ env' = NoEnv /\ got' = NoCall
    /\ UNCHANGED <<aux_vars, provider_vars, usage, acct, parse, report, view, synth_max_tokens, gen, synth_vars, hist>>

DEFAULT_MAX_TOKENS == 2048
DEFAULT_TEMPERATURE == 0
DEFAULT_PROVIDER == <<"a", "n", "t", "h", "r", "o", "p", "i", "c">>

\* a float, in tenths; float("nan") has no such value
PyFloat(tenths) == [t |-> "float", tenths |-> tenths]
NaN == [t |-> "float", special |-> "nan"]

IsDigit(c) == \E i \in 1..10 : Digits[i] = c
DigitValue(c) == (CHOOSE i \in 1..10 : Digits[i] = c) - 1

\* the number a sequence of digits writes
RECURSIVE Numeral(_)
Numeral(ds) == IF ds = <<>> THEN 0 ELSE 10 * Numeral(SubSeq(ds, 1, Len(ds) - 1)) + DigitValue(ds[Len(ds)])

\* digits, with single underscores allowed between them
IsNumeral(s) ==
    /\ s # <<>> /\ IsDigit(s[1]) /\ IsDigit(s[Len(s)])
    /\ \A i \in 1..Len(s) : IsDigit(s[i]) \/ (s[i] = "_" /\ s[i + 1] # "_")

NoUnderscores(s) == SelectSeq(s, LAMBDA c : c # "_")

HasSign(s) == s # <<>> /\ s[1] \in {"+", "-"}
Unsigned(s) == IF HasSign(s) THEN Tail(s) ELSE s
Signed(s, n) == IF HasSign(s) /\ s[1] = "-" THEN 0 - n ELSE n

\* int(value) for a str: white space around the numeral is skipped
int_of(value) ==
    LET body == strip(value) IN
    IF IsNumeral(Unsigned(body))
    THEN Returns(PyInt(Signed(body, Numeral(NoUnderscores(Unsigned(body))))))
    ELSE Raises([Exc("ValueError", "invalid literal for int() with base 10: {arg}") EXCEPT !.arg = PyStr(value)])

\* the position of the decimal point, 0 without one
PointAt(s) == IF \E i \in 1..Len(s) : s[i] = "." THEN CHOOSE i \in 1..Len(s) : s[i] = "." ELSE 0

\* float(value) for a str: nan, or a decimal numeral whose value the model
\* keeps in tenths (the texts of the model have no exponent and at most one
\* digit after the point)
float_of(value) ==
    LET body == strip(value)
        digits == Unsigned(body)
        point == PointAt(digits)
        whole == IF point = 0 THEN digits ELSE SubSeq(digits, 1, point - 1)
        frac == IF point = 0 THEN <<>> ELSE SubSeq(digits, point + 1, Len(digits))
        bad == Raises([Exc("ValueError", "could not convert string to float: {arg}") EXCEPT !.arg = PyStr(value)])
    IN  IF lower(digits) = <<"n", "a", "n">> THEN Returns(NaN)
        ELSE IF whole = <<>> /\ frac = <<>> THEN bad
        ELSE IF (whole # <<>> /\ ~IsNumeral(whole)) \/ (frac # <<>> /\ ~IsNumeral(frac)) THEN bad
        ELSE Returns(PyFloat(Signed(body,
                 10 * (IF whole = <<>> THEN 0 ELSE Numeral(NoUnderscores(whole)))
                 + (IF frac = <<>> THEN 0 ELSE DigitValue(frac[1])))))

\* os.getenv(name): None when the variable is not set
getenv(e, name) == Get(e, name, PyNone)

TrueWords == {<<"t", "r", "u", "e">>, <<"1">>, <<"y", "e", "s">>, <<"o", "n">>}
FalseWords == {<<"f", "a", "l", "s", "e">>, <<"0">>, <<"n", "o">>, <<"o", "f", "f">>}

\* parse_bool_env comparing the value as it is written
parse_bool_env_CaseSensitive(e, env_var, override, default) ==
    IF override # PyNone THEN override
    ELSE LET value == Get(e, env_var, PyStr(<<>>)).s IN
         IF value \in TrueWords THEN PyBool(TRUE)
         ELSE IF value \in FalseWords THEN PyBool(FALSE)
         ELSE default

\* ReasoningConfig._parse_bool_env
parse_bool_env(e, env_var, override, default) ==
    IF override # PyNone THEN override
    ELSE LET value == lower(Get(e, env_var, PyStr(<<>>)).s) IN
         IF value \in TrueWords THEN PyBool(TRUE)
         ELSE IF value \in FalseWords THEN PyBool(FALSE)
         ELSE default

\* ReasoningConfig._parse_int_env: except ValueError around int(value)
parse_int_env(e, env_var, override, default) ==
    IF override # PyNone THEN override
    ELSE LET value == getenv(e, env_var) IN
         IF value # PyNone /\ value.s # <<>>
         THEN LET parsed == int_of(value.s) IN
              IF parsed.ok THEN parsed.value ELSE default
         ELSE default

\* ReasoningConfig._parse_float_env: except ValueError around float(value)
parse_float_env(e, env_var, override, default) ==
    IF override # PyNone THEN override
    ELSE LET value == getenv(e, env_var) IN
         IF value # PyNone /\ value.s # <<>>
         THEN LET parsed == float_of(value.s) IN
              IF parsed.ok THEN parsed.value ELSE default
         ELSE default

\* provider or os.getenv("REASONING_PROVIDER", DEFAULT_PROVIDER).lower():
\* None and the empty string are falsy, and an argument is not lower-cased
provider_or_env(e, provider) ==
    IF provider # PyNone /\ provider.s # <<>> THEN provider
    ELSE PyStr(lower(Get(e, "REASONING_PROVIDER", PyStr(DEFAULT_PROVIDER)).s))

\* ReasoningConfig.__init__(enabled, provider, max_tokens, temperature)
ReasoningConfig(args, e) ==
    [enabled |-> parse_bool_env(e, "ENABLE_REASONING", args.enabled, PyBool(FALSE)),
     provider |-> provider_or_env(e, args.provider),
     max_tokens |-> parse_int_env(e, "REASONING_MAX_TOKENS", args.max_tokens, PyInt(DEFAULT_MAX_TOKENS)),
     temperature |-> parse_float_env(e, "REASONING_TEMPERATURE", args.temperature, PyFloat(DEFAULT_TEMPERATURE))]

NoArgs == [enabled |-> PyNone, provider |-> PyNone, max_tokens |-> PyNone, temperature |-> PyNone]

\* no ReasoningConfig has been constructed
NoCtor == [called |-> FALSE, args |-> NoArgs, env |-> EmptyDict, config |-> ReasoningConfig(NoArgs, EmptyDict)]

\* a caller constructs ReasoningConfig(...) in some environment
ReasoningConfigInit(args, e) ==
    /\ ~ctor.called
    /\ ctor' = [called |-> TRUE, args |-> args, env |-> e, config |-> ReasoningConfig(args, e)]
    /\ UNCHANGED <<prompt_call, singleton, threads>>
    /\ UNCHANGED <<provider_vars, usage, acct, parse, app_vars, synth_max_tokens, gen, synth_vars, hist>>

\* the caller has taken the object
ReasoningConfigReturn ==
    /\ ctor.called
    /\ ctor' = NoCtor
    /\ UNCHANGED <<prompt_call, singleton, threads>>
    /\ UNCHANGED <<provider_vars, usage, acct, parse, app_vars, synth_max_tokens, gen, synth_vars, hist>>

\* the process at its start: _global_config is None (0); heap holds the
\* ReasoningConfig objects constructed so far, an object's identity being
\* its index; the other fields are observations
\*   last, ret: the function called last, the object get_config() returned last
\*   set_id: the object passed to the last set_config() if no reset followed
\*   lazy: the object the first get_config() since the last reset or the
\*     start constructed
\*   before: the objects get_config() returned before the last reset
NoSingleton == [config |-> 0, heap |-> <<>>, last |-> "none", ret |-> 0,
                set_id |-> 0, lazy |-> 0, returned |-> {}, before |-> {}]

\* ReasoningConfig() in the environment of the process
FreshConfig == ReasoningConfig(NoArgs, EmptyDict)

\* get_config(): construct on first use, return the module variable
GetConfig ==
    /\ singleton.config # 0 \/ Len(singleton.heap) < MaxInstances
    /\ LET made_now == singleton.config = 0
           it == IF made_now THEN Len(singleton.heap) + 1 ELSE singleton.config
       IN  singleton' = [singleton EXCEPT
                            !.config = it,
                            !.heap = IF made_now THEN Append(@, FreshConfig) ELSE @,
                            !.lazy = IF made_now THEN it ELSE @,
                            !.last = "get", !.ret = it,
                            !.returned = @ \cup {it}]
    /\ UNCHANGED <<prompt_call, ctor, threads>>
    /\ UNCHANGED <<provider_vars, usage, acct, parse, app_vars, synth_max_tokens, gen, synth_vars, hist>>

\* a caller constructs a ReasoningConfig of its own
NewConfig ==
    /\ Len(singleton.heap) < MaxInstances
    /\ singleton' = [singleton EXCEPT !.heap = Append(@, FreshConfig), !.last = "new"]
    /\ UNCHANGED <<prompt_call, ctor, threads>>
    /\ UNCHANGED <<provider_vars, usage, acct, parse, app_vars, synth_max_tokens, gen, synth_vars, hist>>

\* a caller assigns to a field of an object it holds: c.enabled = True
MutateConfig(c) ==
    /\ c \in 1..Len(singleton.heap)
    /\ singleton.heap[c].enabled # PyBool(TRUE)
    /\ singleton' = [singleton EXCEPT !.heap[c].enabled = PyBool(TRUE), !.last = "mutate"]
    /\ UNCHANGED <<prompt_call, ctor, threads>>
    /\ UNCHANGED <<provider_vars, usage, acct, parse, app_vars, synth_max_tokens, gen, synth_vars, hist>>

\* set_config(config) with an object the caller holds
SetConfig(c) ==
    /\ c \in 1..Len(singleton.heap)
    /\ singleton' = [singleton EXCEPT !.config = c, !.set_id = c, !.last = "set"]
    /\ UNCHANGED <<prompt_call, ctor, threads>>
    /\ UNCHANGED <<provider_vars, usage, acct, parse, app_vars, synth_max_tokens, gen, synth_vars, hist>>

\* ResetConfig leaving the module variable as it is
ResetConfig_KeepsInstance ==
    /\ singleton' = [singleton EXCEPT !.set_id = 0, !.lazy = 0, !.last = "reset",
                                      !.before = singleton.returned]
    /\ UNCHANGED <<prompt_call, ctor, threads>>
    /\ UNCHANGED <<provider_vars, usage, acct, parse, app_vars, synth_max_tokens, gen, synth_vars, hist>>

\* reset_config(): _global_config = None
ResetConfig ==
    /\ singleton' = [singleton EXCEPT !.config = 0, !.set_id = 0, !.lazy = 0, !.last = "reset",
                                      !.before = singleton.returned]
    /\ UNCHANGED <<prompt_call, ctor, threads>>
    /\ UNCHANGED <<provider_vars, usage, acct, parse, app_vars, synth_max_tokens, gen, synth_vars, hist>>

\* no generate() call of the report generator is in progress
\*   context0: the context as build_context and the logo assignment left it
\*   warning: the exception the synthesis step caught; exc: the one that
\*   escaped generate(); synthesized: synthesize() was called
NoReport == [pc |-> "idle", audience |-> "none", context0 |-> EmptyDict, context |-> EmptyDict,
             warning |-> NoExc, exc |-> NoExc, synthesized |-> FALSE]

\* no transform_context() call has been made
NoView == [audience |-> "none", out |-> Returns(EmptyDict)]

-----------------------------------------------------------------------------
(* Prompt builders and response parsers *)

\* the sentinel None that a builder returns when there is nothing to ask
NoPrompt == [template |-> "None"]

\* item.get("risks_issues", "")
RiskValue(item) == Get(item, "risks_issues", PyStr(<<>>))

\* calling .strip() on the value raises when it is None
StripRaises(v) == v.t = "None"

NoneHasNoStrip == Exc("AttributeError", "'NoneType' object has no attribute 'strip'")

\* the (status, item) pairs in the order of the two nested for loops
RECURSIVE FlattenGroups(_)
FlattenGroups(groups) ==
    IF groups = <<>> THEN <<>>
    ELSE LET g == Head(groups) IN
         [i \in 1..Len(g[2]) |-> [status |-> g[1], item |-> g[2][i]]] \o FlattenGroups(Tail(groups))

\* the values risk_analysis._extract_risks skips
BoilerplateRisks == {
    <<"n", "o", " ", "r", "i", "s", "k", "s", " ", "o", "r", " ", "i", "s", "s", "u", "e", "s", " ", "r", "e", "p", "o", "r", "t", "e", "d", " ", "t", "h", "i", "s", " ", "w", "e", "e", "k">>,
    <<"n", "o", "n", "e">>,
    <<"n", "/", "a">>,
    <<>> }

\* IsReportedRisk without the .lower()
IsReportedRisk_CaseSensitive(risk_text) == risk_text # <<>> /\ risk_text \notin BoilerplateRisks

\* if risk_text and risk_text.lower() not in [...]
IsReportedRisk(risk_text) == risk_text # <<>> /\ lower(risk_text) \notin BoilerplateRisks

\* risk_analysis._extract_risks
extract_risks(status_groups) ==
    LET pairs == FlattenGroups(status_groups) IN
    IF \E i \in 1..Len(pairs) : StripRaises(RiskValue(pairs[i].item))
    THEN Raises(NoneHasNoStrip)
    ELSE LET kept == SelectSeq(pairs, LAMBDA p : IsReportedRisk(strip(RiskValue(p.item).s))) IN
         Returns([i \in 1..Len(kept) |->
                    [deliverable |-> Get(kept[i].item, "deliverable", "Unknown"),
                     status |-> kept[i].status,
                     risk |-> strip(RiskValue(kept[i].item).s)]])

\* risk_analysis.build_prompt
risk_analysis_build_prompt(ctx) ==
    LET r == extract_risks(Get(ctx, "status_groups", <<>>)) IN
    IF ~r.ok THEN r
    ELSE IF r.value = <<>> THEN Returns(NoPrompt)
    ELSE Returns([template |-> "risk_analysis", risks |-> r.value])

CriticalStatuses == {"Off Track", "At Risk"}

\* executive_summary._format_status_breakdown: (status, count, plural) lines
format_status_breakdown(status_groups) ==
    [i \in 1..Len(status_groups) |->
        [status |-> status_groups[i][1],
         count |-> Len(status_groups[i][2]),
         plural |-> Len(status_groups[i][2]) # 1]]

\* risks[:150] + "..." if len(risks) > 150 else risks
Truncate(risks) == IF Len(risks) > 150 THEN SubSeq(risks, 1, 150) \o <<".", ".", ".">> ELSE risks

\* executive_summary._extract_critical_items
extract_critical_items(status_groups) ==
    LET pairs == SelectSeq(FlattenGroups(status_groups), LAMBDA p : p.status \in CriticalStatuses) IN
    IF \E i \in 1..Len(pairs) : StripRaises(RiskValue(pairs[i].item))
    THEN Raises(NoneHasNoStrip)
    ELSE Returns([i \in 1..Len(pairs) |->
                    [status |-> pairs[i].status,
                     deliverable |-> Get(pairs[i].item, "deliverable", "Unknown"),
                     priority |-> Get(pairs[i].item, "priority", ""),
                     risk |-> Truncate(strip(RiskValue(pairs[i].item).s))]])

\* if risks and risks.lower() not in [...] in executive_summary._extract_risks_summary
IsSummarisedRisk(risks) == risks # <<>> /\ lower(risks) \notin (BoilerplateRisks \ {<<>>})

\* executive_summary._extract_risks_summary
extract_risks_summary(status_groups) ==
    LET pairs == FlattenGroups(status_groups) IN
    IF \E i \in 1..Len(pairs) : StripRaises(RiskValue(pairs[i].item))
    THEN Raises(NoneHasNoStrip)
    ELSE LET kept == SelectSeq(pairs, LAMBDA p : IsSummarisedRisk(strip(RiskValue(p.item).s))) IN
         Returns([i \in 1..Len(kept) |->
                    [deliverable |-> Get(kept[i].item, "deliverable", "Unknown"),
                     risks |-> strip(RiskValue(kept[i].item).s)]])

\* executive_summary.build_prompt
executive_summary_build_prompt(ctx) ==
    LET status_groups == Get(ctx, "status_groups", <<>>)
        critical == extract_critical_items(status_groups)
        risks == extract_risks_summary(status_groups)
    IN  IF ~critical.ok THEN critical
        ELSE IF ~risks.ok THEN risks
        ELSE Returns([template |-> "executive_summary",
                      total |-> Get(ctx, "total_deliverables", 0),
                      status_breakdown |-> format_status_breakdown(status_groups),
                      critical_items |-> critical.value,
                      risks_summary |-> risks.value])

\* build_prompt() has not been called
NoBuilt == [called |-> FALSE, context |-> EmptyDict, out |-> Returns(NoPrompt)]

\* a caller passes a context to executive_summary.build_prompt
ExecutiveSummaryBuildPrompt(ctx) ==
    /\ ~prompt_call.called
    /\ prompt_call' = [called |-> TRUE, context |-> ctx, out |-> executive_summary_build_prompt(ctx)]
    /\ UNCHANGED <<ctor, singleton, threads>>
    /\ UNCHANGED <<provider_vars, usage, acct, parse, app_vars, synth_max_tokens, gen, synth_vars, hist>>

\* the caller has taken the prompt or the exception
BuildPromptReturn ==
    /\ prompt_call.called
    /\ prompt_call' = NoBuilt
    /\ UNCHANGED <<ctor, singleton, threads>>
    /\ UNCHANGED <<provider_vars, usage, acct, parse, app_vars, synth_max_tokens, gen, synth_vars, hist>>

\* action_items.build_prompt
action_items_build_prompt(ctx) ==
    LET all == IF "deliverables" \in DOMAIN ctx THEN ctx["deliverables"] ELSE <<>>
        critical == SelectSeq(all, LAMBDA d : Get(d, "status", "") \in CriticalStatuses)
    IN  IF critical = <<>> THEN NoPrompt
        ELSE [template |-> "action_items",
              critical_deliverables |->
                  [i \in 1..Len(critical) |->
                      [name |-> Get(critical[i], "deliverable", "Unknown"),
                       status |-> critical[i]["status"]]]]

Preambles == <<
    <<"H", "e", "r", "e", " ", "i", "s", " ", "t", "h", "e", " ", "e", "x", "e", "c", "u", "t", "i", "v", "e", " ", "s", "u", "m", "m", "a", "r", "y", ":">>,
    <<"E", "x", "e", "c", "u", "t", "i", "v", "e", " ", "S", "u", "m", "m", "a", "r", "y", ":">>,
    <<"S", "u", "m", "m", "a", "r", "y", ":">> >>

\* the for loop over preambles, from preamble number i on
RECURSIVE RemovePreambles(_, _)
RemovePreambles(summary, i) ==
    IF i > Len(Preambles) THEN summary
    ELSE IF startswith(summary, Preambles[i])
         THEN RemovePreambles(strip(SubSeq(summary, Len(Preambles[i]) + 1, Len(summary))), i + 1)
         ELSE RemovePreambles(summary, i + 1)

\* executive_summary.parse_response
executive_summary_parse_response(response) ==
    LET summary == RemovePreambles(strip(response), 1) IN
    [summary |-> summary,
     length |-> Len(summary),
     sentence_count |-> count(summary, ".") + count(summary, "!") + count(summary, "?")]

\* sub in s for two texts
Contains(s, sub) == \E i \in 0..(Len(s) - Len(sub)) : SubSeq(s, i + 1, i + Len(sub)) = sub

\* type(v).__name__
TypeName(v) ==
    CASE v.t = "None" -> "NoneType"
      [] v.t = "bool" -> "bool"
      [] v.t = "int" -> "int"
      [] v.t = "str" -> "str"
      [] v.t = "list" -> "list"
      [] v.t = "dict" -> "dict"

\* an exception a parser raises: its message is fmt filled with idx and arg
ParseExc(type, fmt, idx, arg) == [Exc(type, fmt) EXCEPT !.n = idx, !.arg = arg]

\* key in v: a key of a dict, an element of a list, a part of a text;
\* values of the other types are no containers
IsIn(key, v) ==
    CASE v.t = "dict" -> Returns(key \in DOMAIN v.d)
      [] v.t = "list" -> Returns(\E i \in 1..Len(v.l) : v.l[i] = Text(key))
      [] v.t = "str" -> Returns(Contains(v.s, NameChars(key)))
      [] OTHER -> Raises(ParseExc("TypeError", "argument of type '{arg}' is not iterable", 0,
                                  PyName(TypeName(v))))

\* v[key] = ... for a list or a text v
SetItem(v) ==
    IF v.t = "list"
    THEN Raises(ParseExc("TypeError", "list indices must be integers or slices, not str", 0, PyNone))
    ELSE Raises(ParseExc("TypeError", "'str' object does not support item assignment", 0, PyNone))

\* v[key] for a list or a text v
GetItem(v) ==
    IF v.t = "list"
    THEN Raises(ParseExc("TypeError", "list indices must be integers or slices, not str", 0, PyNone))
    ELSE Raises(ParseExc("TypeError", "string indices must be integers, not 'str'", 0, PyNone))

\* json.loads on the response texts of the model: white space around the
\* value is skipped; the texts that do not decode are empty or start with a
\* character no JSON value starts with
json_loads(s) ==
    LET body == strip(s) IN
    IF \E p \in JsonTable : p[1] = body
    THEN Returns((CHOOSE p \in JsonTable : p[1] = body)[2])
    ELSE Raises(Exc("JSONDecodeError", "Expecting value: line 1 column 1 (char 0)"))

\* Backfill assigning to the three keys whether present or not
Backfill_Overwrite(d) == [k \in DOMAIN d \cup RiskKeys |-> IF k \in RiskKeys THEN PyList(<<>>) ELSE d[k]]

\* if key not in data: data[key] = [] for the three keys
Backfill(d) == [k \in DOMAIN d \cup RiskKeys |-> IF k \in DOMAIN d THEN d[k] ELSE PyList(<<>>)]

\* risk_analysis.parse_response
risk_analysis_parse_response(response) ==
    LET loaded == json_loads(strip(response)) IN
    IF ~loaded.ok
    THEN Returns(PyDict([k \in RiskKeys \cup {"parse_error"} |->
                    IF k = "parse_error" THEN StrOf(loaded.exc) ELSE PyList(<<>>)]))
    ELSE LET data == loaded.value
             absent == SelectSeq(<<"themes", "critical_risks", "anomalies">>,
                                 LAMBDA k : ~IsIn(k, data).value)
         IN  IF data.t = "dict"
             THEN Returns(PyDict(Backfill(data.d)))
             ELSE IF ~IsIn("themes", data).ok THEN IsIn("themes", data)
             ELSE IF absent # <<>> THEN SetItem(data)
             ELSE Returns(data)

\* str.split(sep) for a one-character separator
RECURSIVE split(_, _)
split(s, sep) ==
    IF \E i \in 1..Len(s) : s[i] = sep
    THEN LET i == CHOOSE j \in 1..Len(s) : s[j] = sep /\ \A k \in 1..(j - 1) : s[k] # sep
         IN  <<SubSeq(s, 1, i - 1)>> \o split(SubSeq(s, i + 1, Len(s)), sep)
    ELSE <<s>>

\* the backquote character, which a TLA+ string cannot hold
Backquote == "backquote"

\* three backquotes
Fence == <<Backquote, Backquote, Backquote>>

\* if response.startswith(fence): drop the first line, and the last one when
\* it is a fence
StripFences(response) ==
    IF startswith(response, Fence)
    THEN LET lines == Tail(split(response, "\n"))
             kept == IF lines # <<>> /\ strip(lines[Len(lines)]) = Fence
                     THEN SubSeq(lines, 1, Len(lines) - 1) ELSE lines
         IN  JoinSeqs(kept, <<"\n">>)
    ELSE response

\* the for loop over required_fields from field number i on, then the test
\* of the confidence: the exception raised for one action, NoExc if none
RECURSIVE CheckAction(_, _, _)
CheckAction(action, idx, i) ==
    IF i <= Len(RequiredFields)
    THEN LET has == IsIn(RequiredFields[i], action) IN
         IF ~has.ok THEN has.exc
         ELSE IF ~has.value
         THEN ParseExc("ValueError", "Action {n} missing required field: {arg}", idx,
                       PyName(RequiredFields[i]))
         ELSE CheckAction(action, idx, i + 1)
    ELSE IF action.t # "dict" THEN GetItem(action).exc
    ELSE IF action.d["confidence"] \notin ConfidenceLevels
    THEN ParseExc("ValueError", "Action {n} has invalid confidence: {arg}", idx, action.d["confidence"])
    ELSE NoExc

\* CheckActions leaving the loop after the first element
CheckActions_FirstOnly(actions, idx) ==
    IF idx >= Len(actions) \/ idx >= 1 THEN NoExc
    ELSE CheckAction(actions[idx + 1], idx, 1)

\* the for loop over data["actions"] from element idx on (0-based)
RECURSIVE CheckActions(_, _)
CheckActions(actions, idx) ==
    IF idx >= Len(actions) THEN NoExc
    ELSE LET problem == CheckAction(actions[idx + 1], idx, 1) IN
         IF problem # NoExc THEN problem ELSE CheckActions(actions, idx + 1)

\* action_items.parse_response
action_items_parse_response(response) ==
    LET loaded == json_loads(StripFences(strip(response))) IN
    IF ~loaded.ok
    THEN Raises([Exc("ValueError", "Invalid JSON in action items response: {inner}")
                   EXCEPT !.inner = loaded.exc.fmt, !.innerType = loaded.exc.type])
    ELSE LET data == loaded.value
             has == IsIn("actions", data)
         IN  IF ~has.ok THEN has
             ELSE IF ~has.value THEN Raises(Exc("ValueError", "Response missing 'actions' field"))
             ELSE IF data.t # "dict" THEN GetItem(data)
             ELSE IF data.d["actions"].t # "list"
             THEN Raises(Exc("ValueError", "'actions' must be a list"))
             ELSE LET problem == CheckActions(data.d["actions"].l, 0) IN
                  IF problem # NoExc THEN Raises(problem)
                  ELSE Returns(PyDict([k \in {"actions", "count"} |->
                                  IF k = "actions" THEN data.d["actions"]
                                  ELSE PyInt(Len(data.d["actions"].l))]))

\* no parser has been called
NoParse == [parser |-> "none", response |-> <<>>, out |-> Returns(PyNone)]

\* a caller passes a response text to risk_analysis.parse_response
RiskAnalysisParse(response) ==
    /\ parse = NoParse
    /\ parse' = [parser |-> "risk_analysis", response |-> response,
                 out |-> risk_analysis_parse_response(response)]
    /\ UNCHANGED <<aux_vars, provider_vars, usage, acct, app_vars, synth_max_tokens, gen, synth_vars, hist>>

\* a caller passes a response text to action_items.parse_response
ActionItemsParse(response) ==
    /\ parse = NoParse
    /\ parse' = [parser |-> "action_items", response |-> response,
                 out |-> action_items_parse_response(response)]
    /\ UNCHANGED <<aux_vars, provider_vars, usage, acct, app_vars, synth_max_tokens, gen, synth_vars, hist>>

\* the caller has taken what the parser returned or raised
ParseReturn ==
    /\ parse # NoParse
    /\ parse' = NoParse
    /\ UNCHANGED <<aux_vars, provider_vars, usage, acct, app_vars, synth_max_tokens, gen, synth_vars, hist>>

\* the truth value Python gives a value in an if
Truthy(v) ==
    CASE v.t = "None" -> FALSE
      [] v.t = "dict" -> DOMAIN v.d # {}
      [] v.t = "list" -> v.l # <<>>
      [] OTHER -> TRUE

-----------------------------------------------------------------------------
(* ReportSynthesizer *)

FeatureNames == {"executive_summary", "risk_analysis", "action_items"}

\* DefaultFeatures with risk_analysis off
DefaultFeatures_NoRisk == [f \in FeatureNames |-> f = "executive_summary"]

\* if features is None: features = {...}
DefaultFeatures == [f \in FeatureNames |-> f \in {"executive_summary", "risk_analysis"}]

\* Enabled for features.get(name, True)
Enabled_DefaultOn(f, name) == Get(f, name, TRUE)

\* features.get(name, False)
Enabled(f, name) == Get(f, name, FALSE)

\* datetime.now().isoformat()
Now == "2026-01-12T09:00:00"

ErrorKey(feature) ==
    CASE feature = "executive_summary" -> "executive_summary_error"
      [] feature = "risk_analysis" -> "risk_analysis_error"
      [] feature = "action_items" -> "action_items_error"

\* RecordFailure writing every message under executive_summary_error
RecordFailure_WrongKey(syn, feature, e) ==
    With(With(syn, feature, PyNone), "executive_summary_error", StrOf(e))

\* RecordFailure without the assignment of None
RecordFailure_KeepValue(syn, feature, e) == With(syn, ErrorKey(feature), StrOf(e))

\* the two assignments of an except branch of synthesize()
RecordFailure(syn, feature, e) == With(With(syn, feature, PyNone), ErrorKey(feature), StrOf(e))

\* the assignments of the executive-summary try body
RecordSummary(syn, parsed) ==
    With(With(syn, "executive_summary", PyStr(parsed.summary)),
         "executive_summary_metadata",
         [t |-> "metadata", length |-> parsed.length, sentence_count |-> parsed.sentence_count])

\* if risk_result: synthesis["risk_analysis"] = risk_result
RecordRisks(syn, risk_result) == IF Truthy(risk_result) THEN With(syn, "risk_analysis", risk_result) ELSE syn

\* AfterFeature when a failed feature is tried again
AfterFeature_Retry(feature, failed) ==
    IF failed THEN feature ELSE IF feature = "executive_summary" THEN "risk_analysis" ELSE "return"

\* AfterFeature when a failure ends the call
AfterFeature_AbortOnFailure(feature, failed) ==
    IF failed \/ feature # "executive_summary" THEN "return" ELSE "risk_analysis"

\* where synthesize() continues after the try statement of a feature
AfterFeature(feature, failed) == IF feature = "executive_summary" THEN "risk_analysis" ELSE "return"

\* the call of self.provider.generate in _generate_executive_summary and _analyze_risks
CallProvider(feature, prompt) ==
    /\ gen' = CallFrame(feature, prompt, synth_max_tokens, 0)
    /\ hist' = [hist EXCEPT !.calls = Append(@, feature), !.creates = 0, !.sleeps = <<>>,
                            !.outcomes = <<>>, !.tokens0 = <<input_tokens, output_tokens>>]

\* ReportSynthesizer.get_token_usage: return self.provider.get_token_usage()
SynthesizerGetTokenUsage == GetTokenUsage("synthesizer")

\* ReportSynthesizer.reset_token_usage: self.provider.reset_token_usage()
SynthesizerResetTokenUsage == ResetTokenUsage("synthesizer")

\* synthesize(context, features) up to the first feature
Synthesize(ctx, feats) ==
    /\ spc = "idle" /\ gen.pc = "idle"
    /\ input_tokens <= MaxTokens /\ output_tokens <= MaxTokens
    /\ context' = ctx
    /\ features' = IF feats.t = "None" THEN DefaultFeatures ELSE feats.d
    /\ synthesis' = [k \in {"generated_at", "model"} |->
                        IF k = "generated_at" THEN PyName(Now) ELSE PyName(DEFAULT_MODEL)]
    /\ spc' = "executive_summary"
    /\ result' = EmptyDict
    /\ hist' = [NoHist EXCEPT !.featuresArg = feats, !.context0 = ctx]
    /\ UNCHANGED <<aux_vars, provider_vars, usage, acct, parse, app_vars, synth_max_tokens, gen>>

\* if features.get("executive_summary", False): build the prompt and call the provider
ExecutiveSummaryStep ==
    /\ spc = "executive_summary"
    /\ IF ~Enabled(features, "executive_summary")
       THEN /\ spc' = AfterFeature("executive_summary", FALSE)
            /\ UNCHANGED <<synthesis, gen, hist>>
       ELSE LET built == executive_summary_build_prompt(context) IN
            IF ~built.ok
            THEN /\ synthesis' = RecordFailure(synthesis, "executive_summary", built.exc)
                 /\ spc' = AfterFeature("executive_summary", TRUE)
                 /\ hist' = [hist EXCEPT !.errors = Append(@, [feature |-> "executive_summary", exc |-> built.exc])]
                 /\ UNCHANGED gen
            ELSE /\ CallProvider("executive_summary", built.value)
                 /\ spc' = "executive_summary_call"
                 /\ UNCHANGED synthesis
    /\ UNCHANGED <<aux_vars, provider_vars, usage, acct, parse, app_vars, synth_max_tokens, context, features, result>>

\* generate() has returned or raised: parse and record, or the except branch
\* (executive_summary.parse_response raises for no text)
ExecutiveSummaryFinish ==
    /\ spc = "executive_summary_call" /\ gen.pc \in {"returned", "raised"}
    /\ synthesis' = IF gen.pc = "raised"
                    THEN RecordFailure(synthesis, "executive_summary", gen.exc)
                    ELSE RecordSummary(synthesis, executive_summary_parse_response(gen.text))
    /\ spc' = AfterFeature("executive_summary", gen.pc = "raised")
    /\ hist' = IF gen.pc = "raised"
               THEN [hist EXCEPT !.errors = Append(@, [feature |-> "executive_summary", exc |-> gen.exc])]
               ELSE [hist EXCEPT !.texts = Append(@, [feature |-> "executive_summary", text |-> gen.text])]
    /\ gen' = IdleGen
    /\ UNCHANGED <<aux_vars, provider_vars, usage, acct, parse, app_vars, synth_max_tokens, context, features, result>>

\* if features.get("risk_analysis", False): build the prompt, return None
\* without a prompt, else call the provider
RiskAnalysisStep ==
    /\ spc = "risk_analysis"
    /\ IF ~Enabled(features, "risk_analysis")
       THEN /\ spc' = AfterFeature("risk_analysis", FALSE)
            /\ UNCHANGED <<synthesis, gen, hist>>
       ELSE LET built == risk_analysis_build_prompt(context) IN
            IF ~built.ok
            THEN /\ synthesis' = RecordFailure(synthesis, "risk_analysis", built.exc)
                 /\ spc' = AfterFeature("risk_analysis", TRUE)
                 /\ hist' = [hist EXCEPT !.errors = Append(@, [feature |-> "risk_analysis", exc |-> built.exc])]
                 /\ UNCHANGED gen
            ELSE IF built.value = NoPrompt
            THEN /\ synthesis' = RecordRisks(synthesis, PyNone)
                 /\ spc' = AfterFeature("risk_analysis", FALSE)
                 /\ UNCHANGED <<gen, hist>>
            ELSE /\ CallProvider("risk_analysis", built.value)
                 /\ spc' = "risk_analysis_call"
                 /\ UNCHANGED synthesis
    /\ UNCHANGED <<aux_vars, provider_vars, usage, acct, parse, app_vars, synth_max_tokens, context, features, result>>

\* generate() has returned or raised: parse, record a result that is truthy,
\* or the except branch
RiskAnalysisFinish ==
    /\ spc = "risk_analysis_call" /\ gen.pc \in {"returned", "raised"}
    /\ LET parsed == IF gen.pc = "raised" THEN Raises(gen.exc)
                     ELSE risk_analysis_parse_response(gen.text)
       IN  /\ synthesis' = IF parsed.ok THEN RecordRisks(synthesis, parsed.value)
                           ELSE RecordFailure(synthesis, "risk_analysis", parsed.exc)
           /\ spc' = AfterFeature("risk_analysis", ~parsed.ok)
           /\ hist' = [hist EXCEPT
                         !.errors = IF parsed.ok THEN @
                                    ELSE Append(@, [feature |-> "risk_analysis", exc |-> parsed.exc]),
                         !.texts = IF gen.pc = "raised" THEN @
                                   ELSE Append(@, [feature |-> "risk_analysis", text |-> gen.text])]
    /\ gen' = IdleGen
    /\ UNCHANGED <<aux_vars, provider_vars, usage, acct, parse, app_vars, synth_max_tokens, context, features, result>>

\* SynthesizeReturn for context["synthesis"] = synthesis; return context
SynthesizeReturn_InPlace ==
    /\ spc = "return"
    /\ context' = With(context, "synthesis", synthesis)
    /\ result' = context'
    /\ spc' = "done"
    /\ UNCHANGED <<aux_vars, provider_vars, usage, acct, parse, app_vars, synth_max_tokens, gen, features, synthesis, hist>>

\* return {**context, "synthesis": synthesis}
SynthesizeReturn ==
    /\ spc = "return"
    /\ result' = With(context, "synthesis", synthesis)
    /\ spc' = "done"
    /\ UNCHANGED <<aux_vars, provider_vars, usage, acct, parse, app_vars, synth_max_tokens, gen, context, features, synthesis, hist>>

\* the caller has taken the result; the locals of the call are gone
SynthesizeDone ==
    /\ spc = "done"
    /\ spc' = "idle"
    /\ context' = EmptyDict /\ features' = EmptyDict /\ synthesis' = EmptyDict
    /\ result' = EmptyDict
    /\ hist' = NoHist
    /\ UNCHANGED <<aux_vars, provider_vars, usage, acct, parse, app_vars, synth_max_tokens, gen>>

-----------------------------------------------------------------------------
(* Audience renderers *)

\* {**d, k: v for every k of a mapping of additions}
Update(d, more) == [x \in DOMAIN d \cup DOMAIN more |-> IF x \in DOMAIN more THEN more[x] ELSE d[x]]

RECURSIVE SumLens(_)
SumLens(groups) == IF groups = <<>> THEN 0 ELSE Len(Head(groups)[2]) + SumLens(Tail(groups))

critical_statuses == {"Off Track", "At Risk"}

IsCritical(group) == group[1] \in critical_statuses
IsNotCritical(group) == group[1] \notin critical_statuses

\* the four fields of a deliverable the executive view keeps; get() gives
\* None for a field that is absent
ExecutiveSummaryOf(d) ==
    [k \in {"deliverable", "status", "lead", "risks_issues"} |-> Get(d, k, PyNone)]

\* ExecutiveRenderer.transform_context
executive_transform_context(ctx) ==
    LET base == Update(ctx, [k \in {"view_type", "show_technical_details"} |->
                                IF k = "view_type" THEN PyName("executive") ELSE FALSE])
        groups == IF "status_groups" \in DOMAIN ctx
                  THEN Update(base, [k \in {"status_groups_filtered", "on_track_count"} |->
                                        IF k = "status_groups_filtered"
                                        THEN SelectSeq(ctx["status_groups"], IsCritical)
                                        ELSE SumLens(SelectSeq(ctx["status_groups"], IsNotCritical))])
                  ELSE base
        syn == IF "synthesis" \in DOMAIN ctx /\ DOMAIN ctx["synthesis"] # {}
               THEN Update(groups, [k \in {"has_synthesis", "synthesis_emphasized"} |-> TRUE])
               ELSE groups
    IN  Returns(IF "deliverables" \in DOMAIN ctx
                THEN With(syn, "deliverables_summary", [i \in 1..Len(ctx["deliverables"]) |-> ExecutiveSummaryOf(ctx["deliverables"][i])])
                ELSE syn)

\* {**d, "show_updates": True, "show_next_steps": True, "show_blockers": True}
DetailedOf(d) == Update(d, [k \in {"show_updates", "show_next_steps", "show_blockers"} |-> TRUE])

\* TechnicalRenderer.transform_context
technical_transform_context(ctx) ==
    LET base == Update(ctx, [k \in {"view_type", "show_technical_details", "show_all_deliverables"} |->
                                IF k = "view_type" THEN PyName("technical") ELSE TRUE])
        groups == IF "status_groups" \in DOMAIN ctx
                  THEN With(base, "status_groups_filtered", ctx["status_groups"])
                  ELSE base
        detailed == IF "deliverables" \in DOMAIN ctx
                    THEN With(groups, "deliverables_detailed", [i \in 1..Len(ctx["deliverables"]) |-> DetailedOf(ctx["deliverables"][i])])
                    ELSE groups
    IN  Returns(IF "synthesis" \in DOMAIN ctx /\ Truthy(Get(ctx["synthesis"], "risk_analysis", PyNone))
                THEN With(detailed, "risk_analysis_expanded", TRUE)
                ELSE detailed)

NoIssuesReported == <<"N", "o", " ", "i", "s", "s", "u", "e", "s", " ", "r", "e", "p", "o", "r", "t", "e", "d">>

\* PartnerRenderer._sanitize_text
sanitize_text(text) ==
    IF text.t = "None" \/ text.s = <<>>
       \/ lower(text.s) \in {<<"n", "o", "n", "e">>, <<"n", "/", "a">>, <<>>}
    THEN PyStr(NoIssuesReported)
    ELSE IF Len(text.s) > 200
    THEN PyStr(SubSeq(text.s, 1, 200) \o <<".", ".", ".">>)
    ELSE text

\* PartnerRenderer._sanitize_deliverable
sanitize_deliverable(d) ==
    [k \in {"deliverable", "status", "lead", "risks_issues"} |->
        CASE k = "deliverable" -> Get(d, "deliverable", "")
          [] k = "status" -> Get(d, "status", "")
          [] k = "lead" -> "Internal Team"
          [] k = "risks_issues" -> sanitize_text(Get(d, "risks_issues", PyStr(<<>>)))]

\* theme.get("severity", "").lower() != "high" for the themes of a list;
\* an element that is no mapping has no get
KeptThemes(themes) ==
    IF \E i \in 1..Len(themes) : themes[i].t # "dict"
    THEN Raises(ParseExc("AttributeError", "'{arg}' object has no attribute 'get'", 0,
                         PyName(TypeName(themes[CHOOSE i \in 1..Len(themes) :
                                                   /\ themes[i].t # "dict"
                                                   /\ \A j \in 1..(i - 1) : themes[j].t = "dict"]))))
    ELSE LET Kept(theme) == lower(Get(theme.d, "severity", PyStr(<<>>)).s) # <<"h", "i", "g", "h">>
         IN  Returns(PyList(SelectSeq(themes, Kept)))

\* PartnerRenderer._sanitize_risk_analysis: the membership test raises for
\* None, a number or a boolean; a list or a text has no key themes to read;
\* the loop over themes takes the elements of a list, the keys of a mapping
\* and the characters of a text
sanitize_risk_analysis(risk_analysis) ==
    LET has == IsIn("themes", risk_analysis) IN
    IF ~has.ok THEN has
    ELSE IF ~has.value THEN Returns(PyDict(EmptyDict))
    ELSE IF risk_analysis.t # "dict" THEN GetItem(risk_analysis)
    ELSE LET themes == risk_analysis.d["themes"] IN
         IF themes.t = "list"
         THEN LET kept == KeptThemes(themes.l) IN
              IF kept.ok THEN Returns(PyDict([k \in {"themes"} |-> kept.value])) ELSE kept
         ELSE IF themes.t \in {"dict", "str"}
         THEN IF ~Truthy(themes) \/ themes = PyStr(<<>>)
              THEN Returns(PyDict([k \in {"themes"} |-> PyList(<<>>)]))
              ELSE Raises(ParseExc("AttributeError", "'str' object has no attribute 'get'", 0, PyNone))
         ELSE Raises(ParseExc("TypeError", "'{arg}' object is not iterable", 0, PyName(TypeName(themes))))

\* {status: len(items) for status, items in status_groups}
StatusSummary(groups) ==
    [s \in {groups[i][1] : i \in 1..Len(groups)} |->
        Len(groups[CHOOSE i \in 1..Len(groups) :
                       /\ groups[i][1] = s
                       /\ \A j \in (i + 1)..Len(groups) : groups[j][1] # s][2])]

\* PartnerRenderer.transform_context
partner_transform_context(ctx) ==
    LET base == Update(ctx, [k \in {"view_type", "show_technical_details", "external_view"} |->
                                CASE k = "view_type" -> PyName("partner")
                                  [] k = "show_technical_details" -> FALSE
                                  [] k = "external_view" -> TRUE])
        groups == IF "status_groups" \in DOMAIN ctx
                  THEN Update(base, [k \in {"status_summary", "show_detailed_items"} |->
                                        IF k = "status_summary" THEN StatusSummary(ctx["status_groups"])
                                        ELSE FALSE])
                  ELSE base
        sanitized == IF "deliverables" \in DOMAIN ctx
                     THEN With(groups, "deliverables_sanitized", [i \in 1..Len(ctx["deliverables"]) |-> sanitize_deliverable(ctx["deliverables"][i])])
                     ELSE groups
    IN  IF "synthesis" \in DOMAIN ctx /\ DOMAIN ctx["synthesis"] # {}
        THEN IF "risk_analysis" \in DOMAIN ctx["synthesis"]
             THEN LET risks == sanitize_risk_analysis(ctx["synthesis"]["risk_analysis"]) IN
                  IF risks.ok
                  THEN Returns(With(sanitized, "synthesis", With(ctx["synthesis"], "risk_analysis", risks.value)))
                  ELSE risks
             ELSE Returns(sanitized)
        ELSE Returns(sanitized)

Audiences == {"executive", "technical", "partner"}

\* the transform_context of self.renderers[audience]
transform_context(audience, ctx) ==
    CASE audience = "executive" -> executive_transform_context(ctx)
      [] audience = "technical" -> technical_transform_context(ctx)
      [] audience = "partner" -> partner_transform_context(ctx)

-----------------------------------------------------------------------------
(* KPRReportGenerator.generate, from the built context on *)

\* self.logo_base64 when the logo file is missing
logo_base64 == PyName("")

\* Caught for except ValueError
Caught_ValueErrorOnly(e) == e.type = "ValueError"

\* except Exception as e: every exception class of the model derives from Exception
Caught(e) == e.type \in {"ValueError", "ImportError", "NotImplementedError", "TypeError",
                         "AttributeError", "JSONDecodeError", "RuntimeError", "Exception"}

\* the try statement of step 4.5 when its body raises e: the warning is
\* printed and generate() goes on with the context it had
OnSynthesisError(r, e) ==
    IF Caught(e)
    THEN [r EXCEPT !.pc = "render", !.warning = e]
    ELSE [r EXCEPT !.pc = "raised", !.exc = e]

\* the features generate() asks of synthesize()
GeneratorFeatures == PyDict([f \in FeatureNames |-> TRUE])

\* generate(csv_path, audience=audience) with the configuration get_config()
\* returns, up to the built context with the logo added
GeneratorGenerate(ctx, audience, c, e) ==
    /\ report.pc = "idle" /\ spc = "idle" /\ gen.pc = "idle" /\ ~got.called
    /\ report' = [NoReport EXCEPT !.pc = "reasoning", !.audience = audience,
                                  !.context0 = With(ctx, "logo_base64", logo_base64),
                                  !.context = With(ctx, "logo_base64", logo_base64)]
    /\ config' = c /\ env' = e
    /\ view' = NoView
    /\ UNCHANGED <<aux_vars, provider_vars, usage, acct, parse, got, synth_max_tokens, gen, synth_vars, hist>>

\* if reasoning_config.is_enabled(): get_provider() and the ReportSynthesizer
\* around the provider, or the except branch
GeneratorReasoning ==
    /\ report.pc = "reasoning"
    /\ IF ~config.enabled
       THEN /\ report' = [report EXCEPT !.pc = "render"]
            /\ UNCHANGED <<provider_vars, synth_max_tokens, got>>
       ELSE LET made == get_provider(config, env) IN
            /\ got' = [called |-> TRUE, out |-> made.out, constructed |-> made.constructed]
            /\ IF made.out.ok
               THEN /\ input_tokens' = made.out.value.input_tokens
                    /\ output_tokens' = made.out.value.output_tokens
                    /\ max_retries' = made.out.value.max_retries
                    /\ synth_max_tokens' = config.max_tokens
                    /\ report' = [report EXCEPT !.pc = "synthesize"]
               ELSE /\ report' = OnSynthesisError(report, made.out.exc)
                    /\ UNCHANGED <<provider_vars, synth_max_tokens>>
    /\ UNCHANGED <<aux_vars, usage, acct, parse, config, env, view, gen, synth_vars, hist>>

\* context = synthesizer.synthesize(context, features={...}): the call
GeneratorSynthesize ==
    /\ report.pc = "synthesize"
    /\ Synthesize(report.context, GeneratorFeatures)

\* synthesize() has returned: the assignment to context and the print of
\* synthesizer.get_token_usage()
GeneratorSynthesized ==
    /\ report.pc = "synthesize" /\ spc = "done"
    /\ report' = [report EXCEPT !.pc = "render", !.context = result, !.synthesized = TRUE]
    /\ usage' = get_token_usage
    /\ spc' = "idle"
    /\ context' = EmptyDict /\ features' = EmptyDict /\ synthesis' = EmptyDict
    /\ result' = EmptyDict
    /\ hist' = NoHist
    /\ UNCHANGED <<aux_vars, provider_vars, acct, parse, config, env, got, view, synth_max_tokens, gen>>

\* AudienceRenderer.render up to the context handed to the template
RenderContext(audience, ctx) ==
    LET transformed == transform_context(audience, ctx) IN
    IF transformed.ok
    THEN Returns(Update(transformed.value,
                        [k \in {"logo_base64", "audience"} |->
                            IF k = "logo_base64" THEN logo_base64 ELSE PyName(audience)]))
    ELSE transformed

\* step 5: the renderer of the audience, or the default template; an
\* exception of the renderer leaves generate()
GeneratorRender ==
    /\ report.pc = "render"
    /\ IF report.audience \in Audiences
       THEN LET rendered == RenderContext(report.audience, report.context) IN
            /\ view' = [audience |-> report.audience, out |-> rendered]
            /\ report' = IF rendered.ok THEN [report EXCEPT !.pc = "returned"]
                          ELSE [report EXCEPT !.pc = "raised", !.exc = rendered.exc]
       ELSE /\ view' = NoView
            /\ report' = [report EXCEPT !.pc = "returned",
                                        !.context = With(@, "logo_base64", logo_base64)]
    /\ UNCHANGED <<aux_vars, provider_vars, usage, acct, parse, config, env, got, synth_max_tokens, gen, synth_vars, hist>>

\* the caller has taken the html or the exception
GeneratorReturn ==
    /\ report.pc \in {"returned", "raised"}
    /\ report' = NoReport
    /\ config' = NoConfig /\ env' = NoEnv /\ got' = NoCall
    /\ view' = NoView
    /\ usage' = EmptyDict
    /\ UNCHANGED <<aux_vars, provider_vars, acct, parse, synth_max_tokens, gen, synth_vars, hist>>

-----------------------------------------------------------------------------
(* Inputs *)

SeqsUpTo(S, n) == UNION {[1..k -> S] : k \in 0..n}

\* values of a deliverable's risks_issues field: None, empty, the
\* placeholders in other letter case and with padding, a real risk
RiskInputs == {
    PyNone,
    PyStr(<<>>),
    PyStr(<<" ", "N", "o", "n", "e", " ">>),
    PyStr(<<"N", "/", "A">>),
    PyStr(<<"N", "o", " ", "r", "i", "s", "k", "s", " ", "o", "r", " ", "i", "s", "s", "u", "e", "s", " ", "r", "e", "p", "o", "r", "t", "e", "d", " ", "t", "h", "i", "s", " ", "w", "e", "e", "k">>),
    PyStr(<<"R", "e", "a", "l", " ", "r", "i", "s", "k">>) }

\* deliverable records, with and without the risks_issues key
Items(name) == {[deliverable |-> name]} \cup {[deliverable |-> name, risks_issues |-> r] : r \in RiskInputs}

GroupsOf(status, name) == {<<status, items>> : items \in SeqsUpTo(Items(name), MaxItems)}

\* status groups in display order holding at most MaxItems deliverables
StatusGroups ==
    {<<>>}
    \cup {<<g>> : g \in GroupsOf("At Risk", "B") \cup GroupsOf("On Track", "A")}
    \cup {gs \in {<<g1, g2>> : g1 \in GroupsOf("At Risk", "B"), g2 \in GroupsOf("On Track", "A")} :
              Len(gs[1][2]) + Len(gs[2][2]) <= MaxItems}

RECURSIVE CountItems(_)
CountItems(groups) == IF groups = <<>> THEN 0 ELSE Len(Head(groups)[2]) + CountItems(Tail(groups))

\* the context KPRReportBuilder.build_context makes of status groups
BuiltContext(groups) == [status_groups |-> groups, total_deliverables |-> CountItems(groups)]

\* a context that went through synthesize() before
EarlierSynthesis == [k \in {"generated_at", "model"} |->
                        IF k = "generated_at" THEN PyName("2026-01-05T09:00:00") ELSE PyName(DEFAULT_MODEL)]

DeliverableLists == SeqsUpTo({[deliverable |-> "A"]} \cup
                             {[deliverable |-> "A", status |-> st] : st \in {"On Track", "Off Track", "At Risk"}}, 1)

RiskyGroups == <<<<"At Risk", <<[deliverable |-> "B", risks_issues |-> PyStr(<<"R", "e", "a", "l", " ", "r", "i", "s", "k">>)]>>>>>>

Contexts ==
    {EmptyDict}
    \cup {BuiltContext(g) : g \in StatusGroups}
    \cup {With(BuiltContext(g), "deliverables", d) : g \in {<<>>, RiskyGroups}, d \in DeliverableLists}
    \cup {With(BuiltContext(g), "synthesis", EarlierSynthesis) : g \in {<<>>, RiskyGroups}}

\* the features argument: omitted, or a mapping of some feature names
FeatureArgs == {PyNone} \cup {PyDict(f) : f \in UNION {[D -> BOOLEAN] : D \in SUBSET FeatureNames}}

Response(i, o, text, has_text) ==
    [kind |-> "response", input_tokens |-> i, output_tokens |-> o, text |-> text, has_text |-> has_text]

ResponseTexts == {
    <<"S", "u", "m", "m", "a", "r", "y", ":", " ", "A", "l", "l", " ", "o", "k", ".", " ", "G", "o", "!">>,
    <<" ", "{", "}", " ">>,
    <<"[", "]">> }

\* what one client.messages.create call does while synthesize() runs
SynthOutcomes ==
    {[kind |-> "raise", err |-> "API error"]}
    \cup {Response(1, 1, t, TRUE) : t \in ResponseTexts}

\* what one client.messages.create call does for a direct caller
ProviderOutcomes ==
    {[kind |-> "raise", err |-> e] : e \in {"timeout", "rate limit"}}
    \cup {Response(u[1], u[2], t, h) : u \in {<<2, 1>>, <<1, 1>>},
                                      t \in {<<"O", "k">>, <<"[", "]">>},
                                      h \in BOOLEAN}

\* a text with white space around it
Padded(text) == <<" ">> \o text \o <<"\n">>

\* a text in a markdown code block
Fenced(text) == Fence \o <<"j", "s", "o", "n", "\n">> \o text \o <<"\n">> \o Fence

\* texts that are not JSON
MalformedTexts == {
    <<>>,
    <<"n", "o", "t", " ", "j", "s", "o", "n">>,
    <<"S", "o", "r", "r", "y", ".">> }

\* response texts given to risk_analysis.parse_response
RiskResponses ==
    {dumps(v) : v \in RiskDocs \cup NonObjectDocs}
    \cup {Padded(dumps(v)) : v \in NonObjectDocs \cup {PyDict(EmptyDict)}}
    \cup {Fenced(dumps(PyDict(EmptyDict)))}
    \cup MalformedTexts

\* response texts given to action_items.parse_response: plain, padded, in a
\* code block that is closed, left open, or written on one line
ActionResponses ==
    {dumps(v) : v \in ActionDocs \cup NonObjectDocs}
    \cup UNION {{Padded(dumps(v)),
                 Fenced(dumps(v)),
                 Padded(Fenced(dumps(v)) \o <<" ">>),
                 Fence \o <<"\n">> \o dumps(v),
                 Fence \o <<"j", "s", "o", "n", " ">> \o dumps(v) \o <<" ">> \o Fence}
                    : v \in {d \in ActionDocs : d.d["actions"].t # "list" \/ Len(d.d["actions"].l) <= 1}}
    \cup MalformedTexts
    \cup {Fenced(t) : t \in MalformedTexts}

\* rows of a report: the same deliverable with the same risk, the risk with
\* white space around it, a placeholder, and another deliverable
Rows == {[deliverable |-> "A", risks_issues |-> PyStr(<<"L", "a", "t", "e">>)],
         [deliverable |-> "A", risks_issues |-> PyStr(<<" ", "L", "a", "t", "e", " ">>)],
         [deliverable |-> "A", risks_issues |-> PyStr(<<"N", "/", "A">>)],
         [deliverable |-> "B", risks_issues |-> PyStr(<<"L", "a", "t", "e">>)]}

\* status groups holding at most MaxRows rows, in one group or in two
RowGroups ==
    {<<>>}
    \cup {<<<<st, rows>>>> : st \in {"At Risk", "On Track"}, rows \in SeqsUpTo(Rows, MaxRows)}
    \cup {gs \in {<<<<"At Risk", r1>>, <<"On Track", r2>>>> :
                      r1 \in SeqsUpTo(Rows, MaxRows), r2 \in SeqsUpTo(Rows, MaxRows)} :
              Len(gs[1][2]) + Len(gs[2][2]) <= MaxRows}

\* the contexts build_context makes of them
RowContexts == {BuiltContext(g) : g \in RowGroups}

\* texts of ENABLE_REASONING: the words in several letter cases, with
\* white space, and words that are not listed
EnabledTexts == {<<"T", "R", "U", "E">>, <<"O", "n">>, <<"y", "e", "s">>, <<"1">>, <<"f", "a", "l", "s", "e">>, <<"O", "F", "F">>, <<"N", "o">>, <<"0">>, <<"m", "a", "y", "b", "e">>, <<" ", "t", "r", "u", "e", " ">>, <<>>}

\* texts of REASONING_PROVIDER
ProviderTexts == {<<"O", "p", "e", "n", "A", "I">>, <<>>}

\* texts of REASONING_MAX_TOKENS: empty, no number, zero, negative,
\* positive, padded, a fraction, with an underscore, signed
MaxTokensTexts == {<<>>, <<"a", "b", "c">>, <<"0">>, <<"-", "5">>, <<"1", "0", "0">>, <<" ", "7", " ">>, <<"1", ".", "5">>, <<"1", "_", "0">>, <<"+", "3">>}

\* texts of REASONING_TEMPERATURE
TemperatureTexts == {<<>>, <<"h", "o", "t">>, <<"0", ".", "7">>, <<"1">>, <<"n", "a", "n">>, <<".", "5">>}

\* the variable unset, or set to one of the texts
Settings(name, texts) == {EmptyDict} \cup {[k \in {name} |-> PyStr(t)] : t \in texts}

\* environments of the four variables
CtorEnvs ==
    {Update(Update(a, b), Update(c, d)) :
        a \in Settings("ENABLE_REASONING", EnabledTexts),
        b \in Settings("REASONING_PROVIDER", ProviderTexts),
        c \in Settings("REASONING_MAX_TOKENS", MaxTokensTexts),
        d \in Settings("REASONING_TEMPERATURE", TemperatureTexts)}

\* an environment that sets all four
FullEnv ==
    [k \in {"ENABLE_REASONING", "REASONING_PROVIDER", "REASONING_MAX_TOKENS", "REASONING_TEMPERATURE"} |->
        CASE k = "ENABLE_REASONING" -> PyStr(<<"t", "r", "u", "e">>)
          [] k = "REASONING_PROVIDER" -> PyStr(<<"O", "p", "e", "n", "A", "I">>)
          [] k = "REASONING_MAX_TOKENS" -> PyStr(<<"1", "0", "0">>)
          [] k = "REASONING_TEMPERATURE" -> PyStr(<<"0", ".", "7">>)]

\* constructor arguments: each omitted, falsy, or another value
CtorArgs ==
    [enabled : {PyNone, PyBool(FALSE), PyBool(TRUE)},
     provider : {PyNone, PyStr(<<>>), PyStr(<<"O", "l", "l", "a", "m", "a">>)},
     max_tokens : {PyNone, PyInt(0), PyInt(512)},
     temperature : {PyNone, PyFloat(0), PyFloat(3)}]

\* constructions: no arguments in every environment, every combination of
\* arguments in an empty and in a full environment
CtorCalls ==
    {<<NoArgs, e>> : e \in CtorEnvs} \cup {<<a, e>> : a \in CtorArgs, e \in {EmptyDict, FullEnv}}

\* values of ANTHROPIC_API_KEY: not set, empty, a key
EnvVars == {EmptyDict}
           \cup {[k \in {"ANTHROPIC_API_KEY"} |-> v] : v \in {PyStr(<<>>), PyStr(<<"s", "k", "-", "1">>)}}

\* environments, with and without the anthropic package
Environments == {[vars |-> v, packages |-> p] : v \in EnvVars, p \in {{}, {"anthropic"}}}

\* configurations: enabled or not, the two dispatched names, one of them in
\* another letter case, and a name that is not dispatched
Configs == {[enabled |-> en, provider |-> p, max_tokens |-> m, temperature |-> 0] :
                en \in BOOLEAN,
                p \in {"anthropic", "openai", "Anthropic", "unsupported-llm"},
                m \in {0, 2048}}

\* contexts build_context makes: no deliverables, one on track, one at risk
GeneratorContexts ==
    {BuiltContext(g) : g \in {<<>>, RiskyGroups,
                              <<<<"On Track", <<[deliverable |-> "A", risks_issues |-> PyStr(<<"N", "/", "A">>)]>>>>>>}}

\* the audience argument: None, the three registered names, another name
AudienceArgs == {"none", "board"} \cup Audiences

DirectPrompts == {LiteralPrompt(<<>>), LiteralPrompt(<<" ", "\n">>), LiteralPrompt(<<"H", "i">>)}

-----------------------------------------------------------------------------
(* Specifications *)

Init ==
    /\ input_tokens = 0 /\ output_tokens = 0
    /\ max_retries \in (0..MaxRetriesBound) \cup {MAX_RETRIES}
    /\ synth_max_tokens \in {0, 500}
    /\ gen = IdleGen
    /\ context = EmptyDict /\ features = EmptyDict /\ synthesis = EmptyDict
    /\ spc = "idle"
    /\ result = EmptyDict
    /\ hist = NoHist
    /\ usage = EmptyDict
    /\ acct = NoAcct
    /\ parse = NoParse
    /\ config = NoConfig /\ env = NoEnv /\ got = NoCall
    /\ report = NoReport
    /\ view = NoView
    /\ prompt_call = NoBuilt
    /\ ctor = NoCtor
    /\ singleton = NoSingleton
    /\ threads = NoThreads

\* a caller calls synthesize with some context and features argument
SynthesizeCall == spc = "idle" /\ \E ctx \in Contexts, feats \in FeatureArgs : Synthesize(ctx, feats)

\* the backend answers an attempt made on behalf of the synthesizer
SynthAttempt == gen.pc = "attempt" /\ \E o \in SynthOutcomes : GenerateAttempt(o)

\* a synthesizer holding an AnthropicProvider
Next ==
    \/ SynthesizeCall
    \/ ExecutiveSummaryStep
    \/ ExecutiveSummaryFinish
    \/ RiskAnalysisStep
    \/ RiskAnalysisFinish
    \/ SynthesizeReturn
    \/ SynthesizeDone
    \/ GenerateValidate
    \/ SynthAttempt

Spec == Init /\ [][Next]_vars

\* a caller calls generate with some prompt, max_tokens and temperature (in tenths)
DirectCall ==
    gen.pc = "idle" /\ \E p \in DirectPrompts, m \in {0 - 1, 0, 1024}, t \in {0 - 1, 0, 10, 11} : DirectGenerate(p, m, t)

\* the backend answers an attempt of a direct call
DirectAttempt == gen.pc = "attempt" /\ \E o \in ProviderOutcomes : GenerateAttempt(o)

\* a caller reads or resets the counters on the provider
ProviderGetTokenUsage == GetTokenUsage("provider")

ProviderResetTokenUsage == ResetTokenUsage("provider")

\* an AnthropicProvider called directly, its counters read and reset on it
\* and through the synthesizer that holds it
NextProvider ==
    \/ DirectCall
    \/ GenerateValidate
    \/ DirectAttempt
    \/ DirectReturn
    \/ ProviderGetTokenUsage
    \/ ProviderResetTokenUsage
    \/ SynthesizerGetTokenUsage
    \/ SynthesizerResetTokenUsage

SpecProvider == Init /\ [][NextProvider]_vars

RiskAnalysisParseCall == parse = NoParse /\ \E response \in RiskResponses : RiskAnalysisParse(response)

ActionItemsParseCall == parse = NoParse /\ \E response \in ActionResponses : ActionItemsParse(response)

\* the two JSON parsers applied to response texts
NextParsers ==
    \/ RiskAnalysisParseCall
    \/ ActionItemsParseCall
    \/ ParseReturn

SpecParsers == Init /\ [][NextParsers]_vars

ConfigGetProvider == ~got.called /\ \E c \in Configs, e \in Environments : GetProviderCall(c, e)

\* configurations asked for their provider
NextConfig ==
    \/ ConfigGetProvider
    \/ GetProviderReturn

SpecConfig == Init /\ [][NextConfig]_vars

ExecutiveSummaryBuildPromptCall ==
    ~prompt_call.called /\ \E ctx \in RowContexts : ExecutiveSummaryBuildPrompt(ctx)

\* prompts built for contexts of several rows
NextPrompts ==
    \/ ExecutiveSummaryBuildPromptCall
    \/ BuildPromptReturn

SpecPrompts == Init /\ [][NextPrompts]_vars

ReasoningConfigCall ==
    ~ctor.called /\ \E call \in CtorCalls : ReasoningConfigInit(call[1], call[2])

\* constructions of ReasoningConfig
NextCtor ==
    \/ ReasoningConfigCall
    \/ ReasoningConfigReturn

SpecCtor == Init /\ [][NextCtor]_vars

\* the counts a response reports
ThreadUsages == (1..(MaxTokens + 1)) \X (1..(MaxTokens + 1))

ThreadCreateCall == \E t \in ThreadIds, u \in ThreadUsages : ThreadCreate(t, u[1], u[2])

ThreadLoadInputStep == \E t \in ThreadIds : ThreadLoadInput(t)

ThreadStoreInputStep == \E t \in ThreadIds : ThreadStoreInput(t)

ThreadLoadOutputStep == \E t \in ThreadIds : ThreadLoadOutput(t)

ThreadStoreOutputStep == \E t \in ThreadIds : ThreadStoreOutput(t)

ThreadReturnStep == \E t \in ThreadIds : ThreadReturn(t)

\* two threads in generate() on one AnthropicProvider, both answered
NextThreads ==
    \/ ThreadsStart
    \/ ThreadCreateCall
    \/ ThreadLoadInputStep
    \/ ThreadStoreInputStep
    \/ ThreadLoadOutputStep
    \/ ThreadStoreOutputStep
    \/ ThreadReturnStep
    \/ ThreadsJoin

SpecThreads == Init /\ [][NextThreads]_vars

MutateConfigCall == \E c \in 1..MaxInstances : MutateConfig(c)

SetConfigCall == \E c \in 1..MaxInstances : SetConfig(c)

\* callers of get_config, set_config and reset_config in one process
NextSingleton ==
    \/ GetConfig
    \/ NewConfig
    \/ MutateConfigCall
    \/ SetConfigCall
    \/ ResetConfig

SpecSingleton == Init /\ [][NextSingleton]_vars

GeneratorCall ==
    /\ report.pc = "idle"
    /\ \E ctx \in GeneratorContexts, audience \in AudienceArgs, c \in Configs, e \in Environments :
          GeneratorGenerate(ctx, audience, c, e)

\* report generation from the built context on, with the synthesizer's steps
NextGenerator ==
    \/ GeneratorCall
    \/ GeneratorReasoning
    \/ GeneratorSynthesize
    \/ ExecutiveSummaryStep
    \/ ExecutiveSummaryFinish
    \/ RiskAnalysisStep
    \/ RiskAnalysisFinish
    \/ SynthesizeReturn
    \/ GenerateValidate
    \/ SynthAttempt
    \/ GeneratorSynthesized
    \/ GeneratorRender
    \/ GeneratorReturn

SpecGenerator == Init /\ [][NextGenerator]_vars

-----------------------------------------------------------------------------
(* Claims about synthesize(), checked under Spec *)

\* the synthesis record in hand: the local while the call runs
FailedFeatures == {hist.errors[i].feature : i \in 1..Len(hist.errors)}

ErrorOf(f) == hist.errors[CHOOSE i \in 1..Len(hist.errors) : hist.errors[i].feature = f].exc

TextOf(f) == hist.texts[CHOOSE i \in 1..Len(hist.texts) : hist.texts[i].feature = f].text

GotText(f) == \E i \in 1..Len(hist.texts) : hist.texts[i].feature = f

\* C1: when building the prompt, calling the provider or parsing the response
\* raises for an enabled feature, the synthesis record holds null under the
\* feature's key and the exception's message under <feature>_error, from the
\* failing step on and in the mapping synthesize returns; the call goes on to
\* return.
C1_FailureRecorded ==
    \A f \in FailedFeatures :
        /\ f \in DOMAIN synthesis /\ synthesis[f] = PyNone
        /\ ErrorKey(f) \in DOMAIN synthesis /\ synthesis[ErrorKey(f)] = StrOf(ErrorOf(f))
        /\ spc \in {"risk_analysis", "risk_analysis_call", "return", "done"}
        /\ spc = "done" =>
              /\ result["synthesis"][f] = PyNone
              /\ result["synthesis"][ErrorKey(f)] = StrOf(ErrorOf(f))

\* C1 witness: a call has returned in which the executive summary failed in
\* the provider and the risk analysis failed in its parser.
C1_Witness ==
    /\ spc = "done"
    /\ FailedFeatures = {"executive_summary", "risk_analysis"}
    /\ ErrorOf("executive_summary").type = "LLMProviderError"
    /\ ErrorOf("risk_analysis").type = "TypeError"

HasRealRisk(ctx) ==
    LET built == risk_analysis_build_prompt(ctx) IN built.ok /\ built.value # NoPrompt

\* C2: with both features enabled and a context holding a reportable risk, a
\* failed executive-summary provider call is followed by the risk-analysis
\* provider call, whose parsed result is recorded under risk_analysis; and a
\* failed risk analysis leaves the recorded executive summary as it was.
C2_FeaturesIndependent ==
    spc = "done" /\ Enabled(features, "executive_summary") /\ Enabled(features, "risk_analysis")
                 /\ HasRealRisk(context)
    =>  /\ "executive_summary" \in FailedFeatures =>
              /\ "risk_analysis" \in {hist.calls[i] : i \in 1..Len(hist.calls)}
              /\ GotText("risk_analysis") /\ risk_analysis_parse_response(TextOf("risk_analysis")).ok
                 => synthesis["risk_analysis"] = risk_analysis_parse_response(TextOf("risk_analysis")).value
        /\ "risk_analysis" \in FailedFeatures /\ GotText("executive_summary") =>
              /\ synthesis["executive_summary"]
                   = PyStr(executive_summary_parse_response(TextOf("executive_summary")).summary)
              /\ "executive_summary_error" \notin DOMAIN synthesis

\* C2 witness: the executive summary failed in the provider and the risk
\* analysis was recorded.
C2_Witness ==
    /\ spc = "done"
    /\ FailedFeatures = {"executive_summary"}
    /\ ErrorOf("executive_summary").type = "LLMProviderError"
    /\ "risk_analysis" \in DOMAIN synthesis /\ synthesis["risk_analysis"].t = "dict"

Called(f) == f \in {hist.calls[i] : i \in 1..Len(hist.calls)}

\* C3 (the claim as stated): when action_items is enabled and the context's
\* deliverables include one that is Off Track or At Risk, synthesize calls
\* the provider for the action items and writes action_items into the
\* synthesis record.
C3_ActionItemsProcessed ==
    spc = "done" /\ Enabled(features, "action_items") /\ action_items_build_prompt(context) # NoPrompt
    =>  /\ Called("action_items")
        /\ "action_items" \in DOMAIN synthesis

\* C4 (the claim as stated): when synthesize has returned, the context is
\* what was passed in and the returned mapping holds every input key with
\* its original value, plus synthesis.
C4_EveryKeyKept ==
    spc = "done" =>
        /\ context = hist.context0
        /\ DOMAIN result = DOMAIN hist.context0 \cup {"synthesis"}
        /\ \A k \in DOMAIN hist.context0 : result[k] = hist.context0[k]
        /\ result["synthesis"] = synthesis

\* C4 (amended): throughout a synthesize call the context is what was passed
\* in, and the returned mapping holds every input key other than synthesis
\* with its original value, and synthesis mapped to the new record.
C4_ContextUntouched ==
    /\ spc # "idle" => context = hist.context0
    /\ spc = "done" =>
          /\ DOMAIN result = DOMAIN hist.context0 \cup {"synthesis"}
          /\ \A k \in DOMAIN hist.context0 \ {"synthesis"} : result[k] = hist.context0[k]
          /\ result["synthesis"] = synthesis

\* C4 witness: a call with both features run has returned for a context
\* that already held a synthesis key.
C4_Witness ==
    /\ spc = "done"
    /\ "synthesis" \in DOMAIN hist.context0
    /\ Len(hist.calls) = 2

ExclusiveIn(syn) ==
    \A f \in FeatureNames :
        /\ ErrorKey(f) \in DOMAIN syn => f \in DOMAIN syn /\ syn[f] = PyNone
        /\ f \in DOMAIN syn /\ syn[f] # PyNone => ErrorKey(f) \notin DOMAIN syn

\* C5: in the synthesis record, while it is built and as returned, an
\* <f>_error key is present only with f present and null, and f holds a
\* value only with <f>_error absent.
C5_ErrorExcludesValue ==
    /\ ExclusiveIn(synthesis)
    /\ spc = "done" => ExclusiveIn(result["synthesis"])

\* C5 witness: a returned record with a failed feature next to a feature
\* that holds a value.
C5_Witness ==
    /\ spc = "done"
    /\ "risk_analysis_error" \in DOMAIN result["synthesis"]
    /\ "executive_summary" \in DOMAIN result["synthesis"]
    /\ result["synthesis"]["executive_summary"].t = "str"

\* C6: synthesize(context, {}) makes no provider call and returns the
\* context plus a synthesis record holding exactly generated_at and model.
C6_NothingEnabled ==
    hist.featuresArg = PyDict(EmptyDict) =>
        /\ hist.calls = <<>> /\ hist.creates = 0
        /\ gen.pc = "idle"
        /\ DOMAIN synthesis = {"generated_at", "model"}
        /\ spc = "done" => result = With(hist.context0, "synthesis", synthesis)

\* C6 witness: such a call has returned for a context with a reportable risk.
C6_Witness ==
    /\ spc = "done"
    /\ hist.featuresArg = PyDict(EmptyDict)
    /\ HasRealRisk(hist.context0)

\* every deliverable's risk text is, trimmed and in lower case, one of the
\* placeholders (a missing risks_issues key reads as the empty text)
NoRealRisk(ctx) ==
    LET pairs == FlattenGroups(Get(ctx, "status_groups", <<>>)) IN
    \A i \in 1..Len(pairs) :
        /\ RiskValue(pairs[i].item).t = "str"
        /\ lower(strip(RiskValue(pairs[i].item).s)) \in BoilerplateRisks

ProcessedAs(exec_on, risk_on) ==
    /\ Called("executive_summary") <=> exec_on /\ executive_summary_build_prompt(context).ok
    /\ Called("risk_analysis") <=> risk_on /\ HasRealRisk(context)
    /\ ~Called("action_items")
    /\ "executive_summary" \in DOMAIN synthesis <=> exec_on
    /\ "risk_analysis" \in DOMAIN synthesis
          <=> risk_on /\ (HasRealRisk(context) \/ ~risk_analysis_build_prompt(context).ok)

\* C8: a call without the features argument makes the provider calls and
\* writes the feature keys of a call with executive_summary and
\* risk_analysis true and action_items false; a feature absent from a given
\* mapping is treated as disabled.
C8_DefaultFeatures ==
    spc = "done" =>
        IF hist.featuresArg.t = "None"
        THEN /\ ProcessedAs(TRUE, TRUE)
             /\ ~Enabled(features, "action_items")
        ELSE /\ ProcessedAs(Get(hist.featuresArg.d, "executive_summary", FALSE),
                            Get(hist.featuresArg.d, "risk_analysis", FALSE))
             /\ \A f \in FeatureNames \ DOMAIN hist.featuresArg.d :
                   /\ ~Called(f)
                   /\ f \notin DOMAIN synthesis /\ ErrorKey(f) \notin DOMAIN synthesis

\* C8 witness: a call without the features argument has returned with both
\* feature keys written after two provider calls.
C8_Witness ==
    /\ spc = "done"
    /\ hist.featuresArg.t = "None"
    /\ hist.calls = <<"executive_summary", "risk_analysis">>
    /\ {"executive_summary", "risk_analysis"} \subseteq DOMAIN synthesis

\* the features the call in progress was asked for, of those synthesize() handles
EnabledHandled == {f \in {"executive_summary", "risk_analysis"} : Enabled(features, f)}

\* the provider is working for the risk analysis
RiskCallInProgress == gen.caller = "risk_analysis" /\ gen.pc # "idle"

\* C26: within one synthesize() call the generate calls are made in the
\* order executive_summary, risk_analysis, at most one for each enabled
\* feature, so never more than there are enabled features; one generate
\* call is in progress at a time; and while the provider works for the
\* risk analysis, the executive-summary step is over: its key holds the
\* summary, or None beside its error.
C26_FeaturesSequential ==
    /\ hist.calls \in {<<>>, <<"executive_summary">>, <<"risk_analysis">>,
                        <<"executive_summary", "risk_analysis">>}
    /\ spc # "idle" =>
          /\ {hist.calls[i] : i \in 1..Len(hist.calls)} \subseteq EnabledHandled
          /\ Len(hist.calls) <= Cardinality(EnabledHandled)
    /\ gen.pc # "idle" /\ spc # "idle" =>
          /\ gen.caller = hist.calls[Len(hist.calls)]
          /\ spc = IF gen.caller = "executive_summary" THEN "executive_summary_call"
                                                       ELSE "risk_analysis_call"
    /\ RiskCallInProgress /\ Enabled(features, "executive_summary") =>
          /\ "executive_summary" \in DOMAIN synthesis
          /\ \/ synthesis["executive_summary"].t = "str"
                /\ "executive_summary_error" \notin DOMAIN synthesis
             \/ synthesis["executive_summary"] = PyNone
                /\ "executive_summary_error" \in DOMAIN synthesis

\* C26 witness: the provider is called for the risk analysis after the
\* executive summary failed and was recorded as failed.
C26_Witness ==
    /\ RiskCallInProgress /\ gen.pc = "attempt"
    /\ hist.calls = <<"executive_summary", "risk_analysis">>
    /\ synthesis["executive_summary"] = PyNone
    /\ "executive_summary_error" \in DOMAIN synthesis

-----------------------------------------------------------------------------
(* Claims about the prompt builders, checked under SpecPrompts *)

\* C25: in the prompt executive_summary.build_prompt returns, no entry of
\* the reported risks (a deliverable with a risk text) occurs twice, also
\* when the context holds the same deliverable with the same risk text more
\* than once, within a status group or across groups.
C25_RisksDeduplicated ==
    prompt_call.called /\ prompt_call.out.ok =>
        LET listing == prompt_call.out.value.risks_summary IN
        \A i, j \in 1..Len(listing) : listing[i] = listing[j] => i = j

-----------------------------------------------------------------------------
(* Claims about AnthropicProvider.generate, checked under SpecProvider *)

InvalidArguments(g) ==
    \/ g.prompt.template = "literal" /\ \A i \in 1..Len(g.prompt.text) : g.prompt.text[i] \in Whitespace
    \/ g.max_tokens <= 0
    \/ g.temperature < 0 \/ g.temperature > 10

\* C9: generate with an empty or whitespace-only prompt, max_tokens <= 0 or
\* a temperature outside [0.0, 1.0] raises ValueError, makes no
\* client.messages.create call, does not sleep and leaves the token counters
\* as they were.
C9_InvalidArgumentsRejected ==
    gen.pc \notin {"idle", "validate"} /\ InvalidArguments(gen) =>
        /\ gen.pc = "raised" /\ gen.exc.type = "ValueError"
        /\ hist.creates = 0 /\ hist.sleeps = <<>>
        /\ <<input_tokens, output_tokens>> = hist.tokens0

\* C9 witness: a call with max_tokens = 0 and otherwise valid arguments was
\* rejected on a provider whose counters are not zero.
C9_Witness ==
    /\ gen.pc = "raised"
    /\ gen.max_tokens = 0 /\ ~PromptIsBlank(gen.prompt) /\ gen.temperature = 10
    /\ input_tokens > 0
    /\ max_retries >= 1

\* an attempt succeeds when the backend answers with a response whose text
\* can be extracted
Succeeds(o) == o.kind = "response" /\ o.has_text

\* C10: with max_retries >= 1 and valid arguments, generate makes at most
\* max_retries attempts; it returns the text of the first attempt that
\* succeeds, having made exactly that many attempts; when every attempt
\* fails it makes exactly max_retries attempts and raises LLMProviderError
\* carrying the error of the last attempt.
C10_AtMostMaxRetriesAttempts ==
    max_retries >= 1 /\ gen.pc \notin {"idle", "validate"} /\ ~InvalidArguments(gen) =>
        LET k == Len(hist.outcomes) IN
        /\ hist.creates = k /\ k <= max_retries
        /\ gen.pc = "attempt" => k < max_retries /\ \A i \in 1..k : ~Succeeds(hist.outcomes[i])
        /\ gen.pc = "returned" =>
              /\ k >= 1 /\ Succeeds(hist.outcomes[k])
              /\ \A i \in 1..(k - 1) : ~Succeeds(hist.outcomes[i])
              /\ gen.text = hist.outcomes[k].text
        /\ gen.pc = "raised" =>
              /\ k = max_retries
              /\ \A i \in 1..k : ~Succeeds(hist.outcomes[i])
              /\ gen.exc.type = "LLMProviderError"
              /\ gen.exc.n = max_retries
              /\ gen.exc.inner = AttemptError(hist.outcomes[k]).fmt
              /\ gen.exc.innerType = AttemptError(hist.outcomes[k]).type

\* C10 witness: with max_retries = 2, generate has returned the text of the
\* second attempt after the first one raised.
C10_Witness ==
    /\ max_retries = 2
    /\ gen.pc = "returned"
    /\ Len(hist.outcomes) = 2
    /\ hist.outcomes[1].kind = "raise"

\* C10 witness of exhaustion: every attempt failed, the last with a
\* different error than the first.
C10_WitnessExhausted ==
    /\ max_retries = 2
    /\ gen.pc = "raised" /\ gen.exc.type = "LLMProviderError"
    /\ hist.outcomes[1].kind = "raise" /\ hist.outcomes[2].kind = "raise"
    /\ hist.outcomes[1].err # hist.outcomes[2].err

\* the number of backoff sleeps a generate call has made by now: one after
\* each failed attempt that another attempt follows
SleepsDue ==
    LET k == Len(hist.outcomes) IN
    CASE gen.pc = "attempt" -> k
      [] gen.pc = "returned" -> k - 1
      [] gen.pc = "raised" -> max_retries - 1

\* C11: with max_retries >= 1 and valid arguments, generate sleeps once
\* after each failed attempt that another attempt follows, for
\* RETRY_DELAY * 2^a seconds after the attempt with 0-based index a, and
\* never after the last attempt: a call that exhausts its attempts has slept
\* max_retries - 1 times.
C11_BackoffBetweenAttempts ==
    max_retries >= 1 /\ gen.pc \notin {"idle", "validate"} /\ ~InvalidArguments(gen) =>
        /\ Len(hist.sleeps) = SleepsDue
        /\ \A a \in 0..(SleepsDue - 1) : hist.sleeps[a + 1] = 1 * 2^a
        /\ gen.pc = "raised" => Len(hist.outcomes) = max_retries /\ Len(hist.sleeps) = max_retries - 1

\* C11 witness: a provider with the default max_retries of 3 has exhausted
\* its attempts after sleeping 1 and 2 seconds.
C11_Witness ==
    /\ max_retries = 3
    /\ gen.pc = "raised" /\ gen.exc.type = "LLMProviderError"
    /\ hist.creates = 3
    /\ hist.sleeps = <<1, 2>>

-----------------------------------------------------------------------------
(* Claims about the token counters, checked under SpecProvider *)

Counters == <<input_tokens, output_tokens>>

Plus(a, b) == <<a[1] + b[1], a[2] + b[2]>>

\* every response of the generate call in progress had text to extract
CleanSoFar == \A i \in 1..Len(hist.outcomes) :
                  hist.outcomes[i].kind = "response" => hist.outcomes[i].has_text

\* C12: while every generate call since construction or the last reset has
\* returned text, the counters are the sums of the token counts of the
\* responses those calls received, already when generate returns; when
\* each of those responses had text, that is one response per call, the one
\* whose text the call returned; get_token_usage returns these sums.
C12_UsageAccumulates ==
    acct.all_ok /\ gen.pc \in {"idle", "returned"} =>
        /\ Counters = Plus(acct.received, SumUsage(hist.outcomes))
        /\ acct.clean /\ CleanSoFar =>
              Counters = Plus(acct.returned,
                              IF gen.pc = "returned"
                              THEN <<hist.outcomes[Len(hist.outcomes)].input_tokens,
                                     hist.outcomes[Len(hist.outcomes)].output_tokens>>
                              ELSE <<0, 0>>)
        /\ acct.last = "get" =>
              usage = [input_tokens |-> acct.received[1], output_tokens |-> acct.received[2]]

\* C12 witness: get_token_usage returns {3, 2} after two calls that returned
\* the text of responses reporting (1, 1) and (2, 1).
C12_Witness ==
    /\ acct.last = "get" /\ acct.all_ok /\ acct.clean
    /\ acct.returned = <<3, 2>>
    /\ usage = [input_tokens |-> 3, output_tokens |-> 2]

ResetStep == ProviderResetTokenUsage \/ SynthesizerResetTokenUsage

GetStep == ProviderGetTokenUsage \/ SynthesizerGetTokenUsage

\* C13: no step of a generate call, whether it returns, exhausts its
\* attempts or is rejected, and no get_token_usage call lowers a counter;
\* only reset_token_usage does; get_token_usage leaves both counters as
\* they are.
C13_CountersNeverDecrease ==
    [][/\ ~ResetStep => input_tokens' >= input_tokens /\ output_tokens' >= output_tokens
       /\ GetStep => UNCHANGED <<input_tokens, output_tokens>>]_vars

\* C13 witness: get_token_usage has returned counters above zero after a
\* generate call that did not return text.
C13_Witness ==
    /\ acct.last = "get" /\ ~acct.all_ok
    /\ usage = get_token_usage
    /\ input_tokens > 0 /\ output_tokens > 0

ZeroUsage == [input_tokens |-> 0, output_tokens |-> 0]

\* C14: after reset_token_usage, on the provider or through the
\* synthesizer, the counters are zero and get_token_usage returns zeros
\* until the next generate call, whatever was counted before; a second
\* reset changes nothing.
C14_ResetZeroes ==
    /\ [](acct.fresh =>
            /\ input_tokens = 0 /\ output_tokens = 0
            /\ acct.last = "get" => usage = ZeroUsage)
    /\ [][ResetStep /\ acct.last = "reset" =>
            UNCHANGED <<input_tokens, output_tokens, max_retries, usage, gen>>]_vars

\* C14 witness: counters above zero were reset and then read through the
\* synthesizer.
C14_Witness ==
    /\ acct.fresh /\ acct.last = "get" /\ acct.via = "synthesizer"
    /\ acct.reset_used
    /\ usage = ZeroUsage

\* the usage reported by the last response of the generate call in progress
LastUsage == SumUsage(<<hist.outcomes[Len(hist.outcomes)]>>)

\* C28: whatever the backend did in each attempt (an exception, a response
\* with text, a response with usage and no text), a generate call that
\* raises leaves both counters as they were when it was called, and a call
\* that returns text has raised each counter by the count of the one
\* response whose text it returns.
C28_OnlyReturnedResponseCounts ==
    gen.caller = "direct" =>
        /\ gen.pc = "raised" => Counters = hist.tokens0
        /\ gen.pc = "returned" => Counters = Plus(hist.tokens0, LastUsage)

-----------------------------------------------------------------------------
(* Claims about the response parsers, checked under SpecParsers *)

\* the JSON value a text holds, if any
Decodes(text) == \E p \in JsonTable : p[1] = strip(text)

Decoded(text) == (CHOOSE p \in JsonTable : p[1] = strip(text))[2]

\* C15 (the claim as stated): for every response text, also one whose JSON
\* value is an array, a string, a number, a boolean or null,
\* risk_analysis.parse_response returns a mapping holding the keys themes,
\* critical_risks and anomalies, and does not raise.
C15_RiskParserNeverRaises ==
    parse.parser = "risk_analysis" =>
        /\ parse.out.ok
        /\ parse.out.value.t = "dict"
        /\ {"themes", "critical_risks", "anomalies"} \subseteq DOMAIN parse.out.value.d

\* C16: for a text that does not decode, risk_analysis.parse_response
\* returns empty themes, critical_risks and anomalies and a non-empty
\* parse_error; for a text holding a JSON object it returns the object's
\* keys with their values, each absent one of the three keys with an empty
\* array, and no parse_error.
C16_RiskParserFallbackAndBackfill ==
    parse.parser = "risk_analysis" =>
        /\ ~Decodes(parse.response) =>
              /\ parse.out.ok /\ parse.out.value.t = "dict"
              /\ DOMAIN parse.out.value.d = {"themes", "critical_risks", "anomalies", "parse_error"}
              /\ \A k \in {"themes", "critical_risks", "anomalies"} : parse.out.value.d[k] = PyList(<<>>)
              /\ parse.out.value.d["parse_error"].t = "msg"
              /\ parse.out.value.d["parse_error"].fmt # ""
        /\ Decodes(parse.response) /\ Decoded(parse.response).t = "dict" =>
              LET doc == Decoded(parse.response).d IN
              /\ parse.out.ok /\ parse.out.value.t = "dict"
              /\ DOMAIN parse.out.value.d = DOMAIN doc \cup {"themes", "critical_risks", "anomalies"}
              /\ \A k \in DOMAIN doc : parse.out.value.d[k] = doc[k]
              /\ \A k \in {"themes", "critical_risks", "anomalies"} \ DOMAIN doc :
                    parse.out.value.d[k] = PyList(<<>>)
              /\ "parse_error" \notin DOMAIN parse.out.value.d

\* C16 witness: an object holding themes and a null anomalies was returned
\* with critical_risks filled in.
C16_Witness ==
    /\ parse.parser = "risk_analysis"
    /\ Decodes(parse.response) /\ Decoded(parse.response).t = "dict"
    /\ DOMAIN Decoded(parse.response).d = {"themes", "anomalies"}
    /\ parse.out.ok
    /\ parse.out.value.d["themes"] = PyList(<<PyStr(<<"x">>)>>)
    /\ parse.out.value.d["anomalies"] = PyNone
    /\ parse.out.value.d["critical_risks"] = PyList(<<>>)

\* C16 witness of the fallback: a response in a markdown code block.
C16_WitnessFallback ==
    /\ parse.parser = "risk_analysis"
    /\ startswith(parse.response, Fence)
    /\ parse.out.ok /\ "parse_error" \in DOMAIN parse.out.value.d

Required == <<"title", "description", "owner", "success_criterion", "confidence">>

High == PyStr(<<"h", "i", "g", "h">>)
Medium == PyStr(<<"m", "e", "d", "i", "u", "m">>)
Low == PyStr(<<"l", "o", "w">>)

\* an action object lacks a required field or has an unknown confidence
BadAction(a) ==
    \/ \E i \in 1..5 : Required[i] \notin DOMAIN a.d
    \/ a.d["confidence"] \notin {High, Medium, Low}

\* what the error for a bad action names
Named(a) ==
    IF \E i \in 1..5 : Required[i] \notin DOMAIN a.d
    THEN PyName(Required[CHOOSE i \in 1..5 : /\ Required[i] \notin DOMAIN a.d
                                             /\ \A j \in 1..(i - 1) : Required[j] \in DOMAIN a.d])
    ELSE a.d["confidence"]

\* the text left of the response once a surrounding code block is removed
Body == StripFences(strip(parse.response))

RaisesValueError == ~parse.out.ok /\ parse.out.exc.type = "ValueError"

\* C17: action_items.parse_response raises ValueError when the text left
\* after removing a code block does not decode, when it holds an object
\* without actions or with actions that is not a list, and when an action
\* of the list lacks a required field or has a confidence other than high,
\* medium, low; the error then carries the index of the first such action
\* and its first missing field, or else its confidence; a list of complete
\* actions is returned with its length, related_deliverables present or not.
C17_ActionItemsValidated ==
    parse.parser = "action_items" =>
        /\ ~Decodes(Body) => RaisesValueError
        /\ Decodes(Body) /\ Decoded(Body).t = "dict" =>
              LET doc == Decoded(Body).d IN
              IF "actions" \notin DOMAIN doc THEN RaisesValueError
              ELSE IF doc["actions"].t # "list" THEN RaisesValueError
              ELSE LET actions == doc["actions"].l IN
                   (\A i \in 1..Len(actions) : actions[i].t = "dict") =>
                       IF \E i \in 1..Len(actions) : BadAction(actions[i])
                       THEN LET first == CHOOSE i \in 1..Len(actions) :
                                             /\ BadAction(actions[i])
                                             /\ \A j \in 1..(i - 1) : ~BadAction(actions[j])
                            IN  /\ RaisesValueError
                                /\ parse.out.exc.n = first - 1
                                /\ parse.out.exc.arg = Named(actions[first])
                       ELSE /\ parse.out.ok
                            /\ parse.out.value.d["actions"] = doc["actions"]
                            /\ parse.out.value.d["count"] = PyInt(Len(actions))

\* C17 witness: a response whose second action lacks owner
\* was rejected with an error naming action 1 and owner.
C17_Witness ==
    /\ parse.parser = "action_items"
    /\ ~parse.out.ok /\ parse.out.exc.type = "ValueError"
    /\ parse.out.exc.n = 1 /\ parse.out.exc.arg = PyName("owner")

\* C17 witness of acceptance: a response in a code block with one action
\* without related_deliverables was returned with count 1.
C17_WitnessAccepted ==
    /\ parse.parser = "action_items"
    /\ startswith(strip(parse.response), Fence)
    /\ parse.out.ok /\ parse.out.value.d["count"] = PyInt(1)
    /\ "related_deliverables" \notin DOMAIN parse.out.value.d["actions"].l[1].d

\* an element of a returned actions list is a complete action
WellFormedAction(a) ==
    /\ a.t = "dict"
    /\ \A i \in 1..5 : Required[i] \in DOMAIN a.d
    /\ a.d["confidence"] \in {High, Medium, Low}

\* C29: for every response text, also one whose JSON value is not an object
\* or whose actions elements are not objects, action_items.parse_response
\* either raises ValueError or returns actions and count, count being the
\* length of actions and every action complete with a confidence of high,
\* medium or low; no exception of another type leaves it.
C29_ActionParserTwoOutcomes ==
    parse.parser = "action_items" =>
        IF parse.out.ok
        THEN /\ parse.out.value.t = "dict"
             /\ DOMAIN parse.out.value.d = {"actions", "count"}
             /\ parse.out.value.d["actions"].t = "list"
             /\ parse.out.value.d["count"] = PyInt(Len(parse.out.value.d["actions"].l))
             /\ \A i \in 1..Len(parse.out.value.d["actions"].l) :
                   WellFormedAction(parse.out.value.d["actions"].l[i])
        ELSE parse.out.exc.type = "ValueError"

-----------------------------------------------------------------------------
(* Claims about report generation, checked under SpecGenerator *)

\* C18: whatever synthesis record synthesize() has put in the context (a
\* feature key absent, holding a result, or None beside an _error message),
\* the transform_context of the executive, technical and partner renderers
\* completes without raising.
C18_RenderersNeverRaise == view.audience \in Audiences => view.out.ok

\* the synthesis step is over and generate() has not returned yet
PastSynthesis == report.pc \in {"render", "returned", "raised"}

\* C19: in generate(), when reasoning is enabled and acquiring the provider
\* raises, the exception stays inside generate(), the context is the one
\* from before the synthesis step, without a synthesis key, and rendering
\* follows; an exception that leaves generate() is the renderer's.  When
\* reasoning is disabled no provider is constructed and synthesize() is not
\* called.
C19_SynthesisBestEffort ==
    /\ [][report.pc = "reasoning" =>
            /\ report'.pc \in {"synthesize", "render"}
            /\ report'.exc = NoExc
            /\ got'.called /\ ~got'.out.ok =>
                  /\ report'.pc = "render"
                  /\ report'.warning = got'.out.exc
                  /\ report'.context = report.context0
            /\ ~config.enabled =>
                  /\ report'.pc = "render"
                  /\ UNCHANGED <<input_tokens, output_tokens, max_retries, got, spc>>]_vars
    /\ [](PastSynthesis /\ report.warning # NoExc =>
            /\ config.enabled /\ ~report.synthesized
            /\ "synthesis" \notin DOMAIN report.context
            /\ report.context = report.context0)
    /\ [](PastSynthesis /\ ~config.enabled =>
            /\ ~got.called /\ got.constructed = <<>>
            /\ ~report.synthesized /\ spc = "idle"
            /\ report.context = report.context0)
    /\ [](report.pc = "raised" =>
            /\ view.audience = report.audience /\ ~view.out.ok
            /\ report.exc = view.out.exc)

\* C19 witness: with reasoning enabled get_provider() raised, and generate()
\* returned the report of the executive renderer.
C19_Witness ==
    /\ report.pc = "returned" /\ report.audience = "executive"
    /\ config.enabled /\ got.called /\ ~got.out.ok
    /\ report.warning = got.out.exc
    /\ view.out.ok

\* C19 witness of the disabled layer: generate() returned a report.
C19_WitnessDisabled ==
    /\ report.pc = "returned" /\ ~config.enabled
    /\ report.audience = "partner" /\ view.out.ok

\* C19 witness of a synthesis that worked: the report holds its record.
C19_WitnessSynthesized ==
    /\ report.pc = "returned" /\ report.synthesized
    /\ "synthesis" \in DOMAIN report.context

-----------------------------------------------------------------------------
(* Claims about ReasoningConfig, checked under SpecConfig *)

Refused(fmt) == ~got.out.ok /\ got.out.exc.type = "ValueError" /\ got.out.exc.fmt = fmt

NotEnabledOrUnsupported ==
    /\ ~config.enabled => Refused("Reasoning layer is not enabled") /\ got.constructed = <<>>
    /\ config.enabled /\ config.provider \notin {"anthropic", "openai"} =>
          /\ Refused("Unsupported LLM provider: {arg}. Supported providers: anthropic, openai")
          /\ got.out.exc.arg = PyName(config.provider)
          /\ got.constructed = <<>>

\* C20 (the claim as stated): get_provider raises ValueError "Reasoning
\* layer is not enabled" when enabled is false, whatever the provider name
\* and without constructing a backend; with enabled true and a name that is
\* not dispatched it raises ValueError listing the supported names; with
\* enabled true and provider "anthropic" it returns an AnthropicProvider.
C20_GetProviderAsStated ==
    got.called =>
        /\ NotEnabledOrUnsupported
        /\ config.enabled /\ config.provider = "anthropic" =>
              got.out.ok /\ got.out.value.class = "AnthropicProvider"

\* C20 (amended): as stated, except that with enabled true and provider
\* "anthropic" an AnthropicProvider is returned when ANTHROPIC_API_KEY is
\* set to a non-empty value and the anthropic package is installed; without
\* the key get_provider raises ValueError, with the key and without the
\* package ImportError.
C20_GetProvider ==
    got.called =>
        /\ NotEnabledOrUnsupported
        /\ config.enabled /\ config.provider = "anthropic" =>
              LET key == "ANTHROPIC_API_KEY" \in DOMAIN env.vars /\ env.vars["ANTHROPIC_API_KEY"].s # <<>> IN
              /\ got.constructed = <<"AnthropicProvider">>
              /\ key /\ "anthropic" \in env.packages =>
                    got.out.ok /\ got.out.value.class = "AnthropicProvider"
              /\ ~key => ~got.out.ok /\ got.out.exc.type = "ValueError"
              /\ key /\ "anthropic" \notin env.packages =>
                    ~got.out.ok /\ got.out.exc.type = "ImportError"

\* C20 witness: a disabled configuration naming anthropic refused to make a
\* provider in an environment where the key and the package are present.
C20_Witness ==
    /\ got.called /\ ~config.enabled /\ config.provider = "anthropic"
    /\ ~NoApiKey(env) /\ "anthropic" \in env.packages
    /\ ~got.out.ok /\ got.constructed = <<>>

\* C20 witness of the provider: an enabled configuration returned an
\* AnthropicProvider.
C20_WitnessProvider ==
    /\ got.called /\ config.enabled
    /\ got.out.ok /\ got.out.value.class = "AnthropicProvider"

\* C30: with enabled true, get_provider() either returns a provider or
\* raises ValueError, for every provider name, anthropic and openai among
\* them; no exception of another type leaves it.
C30_GetProviderTwoOutcomes ==
    got.called /\ config.enabled =>
        \/ got.out.ok /\ got.out.value.class \in {"AnthropicProvider", "OpenAIProvider"}
        \/ ~got.out.ok /\ got.out.exc.type = "ValueError"

-----------------------------------------------------------------------------
(* Claims about the construction of ReasoningConfig, checked under SpecCtor *)

\* the variable is set in the environment of the construction
IsSet(name) == name \in DOMAIN ctor.env

\* the text of a variable that is set
EnvText(name) == ctor.env[name].s

\* C22 (the claim as stated): each setting of a constructed ReasoningConfig
\* is the explicit argument when one is given, whatever its value (False,
\* 0, 0.0 and the empty string too); else the value of its environment
\* variable when that is set and can be parsed; else the default: enabled
\* False, provider anthropic, max_tokens 2048, temperature 0.0.
C22_StrictPrecedence ==
    ctor.called =>
        /\ ctor.config.enabled =
              IF ctor.args.enabled # PyNone THEN ctor.args.enabled
              ELSE IF IsSet("ENABLE_REASONING") /\ lower(EnvText("ENABLE_REASONING")) \in TrueWords
                   THEN PyBool(TRUE)
                   ELSE PyBool(FALSE)
        /\ ctor.config.provider =
              IF ctor.args.provider # PyNone THEN ctor.args.provider
              ELSE IF IsSet("REASONING_PROVIDER") THEN PyStr(lower(EnvText("REASONING_PROVIDER")))
                   ELSE PyStr(<<"a", "n", "t", "h", "r", "o", "p", "i", "c">>)
        /\ ctor.config.max_tokens =
              IF ctor.args.max_tokens # PyNone THEN ctor.args.max_tokens
              ELSE IF IsSet("REASONING_MAX_TOKENS") /\ int_of(EnvText("REASONING_MAX_TOKENS")).ok
                   THEN int_of(EnvText("REASONING_MAX_TOKENS")).value
                   ELSE PyInt(2048)
        /\ ctor.config.temperature =
              IF ctor.args.temperature # PyNone THEN ctor.args.temperature
              ELSE IF IsSet("REASONING_TEMPERATURE") /\ float_of(EnvText("REASONING_TEMPERATURE")).ok
                   THEN float_of(EnvText("REASONING_TEMPERATURE")).value
                   ELSE PyFloat(0)

\* the text has a character no numeral has, or no digit at all
NoNumber(text, others) ==
    \/ \E i \in 1..Len(text) : ~IsDigit(text[i]) /\ text[i] \notin others \cup Whitespace
    \/ \A i \in 1..Len(text) : ~IsDigit(text[i])

\* C23: a construction without arguments returns an object whatever the
\* environment holds: enabled is True for true, 1, yes, on and False for
\* false, 0, no, off in any letter case, and False for every other text;
\* max_tokens is 2048 and temperature 0.0 when the variable's text is no
\* integer, no float.
C23_EnvironmentNeverRaises ==
    ctor.called /\ ctor.args = NoArgs =>
        /\ DOMAIN ctor.config = {"enabled", "provider", "max_tokens", "temperature"}
        /\ ctor.config.enabled.t = "bool"
        /\ ctor.config.enabled.b =
              (IsSet("ENABLE_REASONING") /\ lower(EnvText("ENABLE_REASONING")) \in
                  {<<"t", "r", "u", "e">>, <<"1">>, <<"y", "e", "s">>, <<"o", "n">>})
        /\ ctor.config.max_tokens.t = "int"
        /\ IsSet("REASONING_MAX_TOKENS") /\ NoNumber(EnvText("REASONING_MAX_TOKENS"), {"+", "-", "_"}) =>
              ctor.config.max_tokens = PyInt(2048)
        /\ ctor.config.temperature.t = "float"
        /\ /\ IsSet("REASONING_TEMPERATURE")
           /\ NoNumber(EnvText("REASONING_TEMPERATURE"), {"+", "-", "_", "."})
           /\ lower(strip(EnvText("REASONING_TEMPERATURE"))) # <<"n", "a", "n">>
           => ctor.config.temperature = PyFloat(0)

\* C23 witness: with ENABLE_REASONING=maybe, REASONING_MAX_TOKENS=abc and
\* REASONING_TEMPERATURE=hot the object holds the three defaults.
C23_Witness ==
    /\ ctor.called /\ ctor.args = NoArgs
    /\ IsSet("ENABLE_REASONING") /\ EnvText("ENABLE_REASONING") = <<"m", "a", "y", "b", "e">>
    /\ IsSet("REASONING_MAX_TOKENS") /\ EnvText("REASONING_MAX_TOKENS") = <<"a", "b", "c">>
    /\ IsSet("REASONING_TEMPERATURE") /\ EnvText("REASONING_TEMPERATURE") = <<"h", "o", "t">>
    /\ ctor.config.enabled = PyBool(FALSE)
    /\ ctor.config.max_tokens = PyInt(2048)
    /\ ctor.config.temperature = PyFloat(0)

\* C23 witness of the words: ENABLE_REASONING=On enables, OFF disables.
C23_WitnessWords ==
    /\ ctor.called /\ ctor.args = NoArgs
    /\ IsSet("ENABLE_REASONING") /\ EnvText("ENABLE_REASONING") = <<"O", "n">>
    /\ ctor.config.enabled = PyBool(TRUE)

\* C24: a ReasoningConfig constructed without a max_tokens argument has a
\* max_tokens above zero, whatever REASONING_MAX_TOKENS holds (unset,
\* empty, no number, zero, negative, positive).
C24_MaxTokensPositive ==
    ctor.called /\ ctor.args.max_tokens = PyNone => ctor.config.max_tokens.i > 0

-----------------------------------------------------------------------------
(* Claims about the global configuration, checked under SpecSingleton *)

\* C21: get_config() returns the object passed to the last set_config()
\* when no reset_config() followed it, and otherwise the object that the
\* first get_config() since the last reset (or the start) constructed; two
\* get_config() calls with no set or reset between them return the same
\* object; and the object the first get_config() after a reset constructs
\* is new: none of those returned before the reset, in the state the
\* constructor gives it.
C21_SingletonLifecycle ==
    /\ [](singleton.last = "get" =>
            /\ singleton.ret # 0
            /\ singleton.ret = IF singleton.set_id # 0 THEN singleton.set_id ELSE singleton.lazy)
    /\ [][GetConfig =>
            /\ singleton.last = "get" => singleton'.ret = singleton.ret
            /\ singleton.config = 0 =>
                  /\ singleton'.ret \notin 1..Len(singleton.heap)
                  /\ singleton'.ret \notin singleton.before \cup singleton.returned
                  /\ singleton'.heap[singleton'.ret] = FreshConfig
            /\ singleton.config # 0 => singleton'.heap = singleton.heap]_vars

\* C21 witness: after get, a change of the object, reset and get again,
\* get_config() has returned a second object, with enabled as constructed.
C21_Witness ==
    /\ singleton.last = "get" /\ singleton.before # {}
    /\ singleton.ret \notin singleton.before
    /\ \E c \in singleton.before : singleton.heap[c].enabled = PyBool(TRUE)
    /\ singleton.heap[singleton.ret].enabled = PyBool(FALSE)

\* C21 witness of substitution: get_config() has returned the object a
\* caller constructed and passed to set_config().
C21_WitnessSet ==
    /\ singleton.last = "get" /\ singleton.set_id # 0
    /\ singleton.ret = singleton.set_id /\ singleton.ret # singleton.lazy

-----------------------------------------------------------------------------
(* Claims about concurrent calls of generate, checked under SpecThreads *)

\* C27: when two concurrent generate() calls on one provider have both
\* returned, each counter is its value when they started plus the counts
\* of both responses, whatever the interleaving of the updates was.
C27_NoLostIncrement ==
    threads.pc = "joined" =>
        Counters = Plus(threads.tokens0, Plus(threads.response[1], threads.response[2]))

====
